---- MODULE Spec2Model ----
(***************************************************************************)
(* Stream2Graph realtime core: streaming intent engine, incremental        *)
(* renderer and the session orchestrator of the realtime frontend server.  *)
(*                                                                         *)
(* Texts are ASCII strings handled character by character (SubSeq, Len).   *)
(* Floating point values are fixed point integers: confidences in 1/10000, *)
(* positions and displacements in 1/100 pixel.                             *)
(***************************************************************************)
EXTENDS Integers, Sequences, FiniteSets, TLC

(***************************************************************************)
(* Section 1.  Strings                                                      *)
(***************************************************************************)

\* the characters of the regular expression class [a-z0-9_], in code point order
TokenAlphabet == "0123456789_abcdefghijklmnopqrstuvwxyz"
TokenChars == {SubSeq(TokenAlphabet, i, i) : i \in 1..Len(TokenAlphabet)}
SplitChars == {";", ",", ".", "!", "?"}
SentenceEndChars == {".", "!", "?"}
Whitespace == {" "}

CharAt(s, i) == SubSeq(s, i, i)

Min2(a, b) == IF a <= b THEN a ELSE b
Max2(a, b) == IF a >= b THEN a ELSE b

\* F applied to the value of v, v evaluated first: a statement sequence "x = v; F(x)"
Then(v, F(_)) == CHOOSE r \in {F(x) : x \in {v}} : TRUE

\* str.lower() on one character
LowerChar(c) ==
    LET Map(upper) == IF c \in DOMAIN upper THEN upper[c] ELSE c
    IN  Map([A |-> "a", B |-> "b", C |-> "c", D |-> "d", E |-> "e", F |-> "f", G |-> "g",
             H |-> "h", I |-> "i", J |-> "j", K |-> "k", L |-> "l", M |-> "m", N |-> "n",
             O |-> "o", P |-> "p", Q |-> "q", R |-> "r", S |-> "s", T |-> "t", U |-> "u",
             V |-> "v", W |-> "w", X |-> "x", Y |-> "y", Z |-> "z"])

\* str.lower()
RECURSIVE Lower(_)
Lower(s) ==
    IF Len(s) = 0 THEN ""
    ELSE IF Len(s) = 1 THEN LowerChar(s)
    ELSE LET h == Len(s) \div 2
         IN  Lower(SubSeq(s, 1, h)) \o Lower(SubSeq(s, h + 1, Len(s)))

RECURSIVE LStripIdx(_, _)
LStripIdx(s, i) ==
    IF i <= Len(s) /\ CharAt(s, i) \in Whitespace THEN LStripIdx(s, i + 1) ELSE i

RECURSIVE RStripIdx(_, _)
RStripIdx(s, j) ==
    IF j >= 1 /\ CharAt(s, j) \in Whitespace THEN RStripIdx(s, j - 1) ELSE j

\* str.strip()
Strip(s) ==
    LET Cut(i, j) == IF i > j THEN "" ELSE SubSeq(s, i, j)
    IN  Cut(LStripIdx(s, 1), RStripIdx(s, Len(s)))

\* kw in s
Contains(s, kw) ==
    \E i \in 1..(Len(s) - Len(kw) + 1) : SubSeq(s, i, i + Len(kw) - 1) = kw

\* s.startswith(m)
StartsWith(s, m) == Len(s) >= Len(m) /\ SubSeq(s, 1, Len(m)) = m

\* code point order of two token characters
CharRank(c) == CHOOSE i \in 1..Len(TokenAlphabet) : CharAt(TokenAlphabet, i) = c

RECURSIVE StrLessFrom(_, _, _)
StrLessFrom(a, b, i) ==
    IF i > Len(a) THEN i <= Len(b)
    ELSE IF i > Len(b) THEN FALSE
    ELSE IF CharAt(a, i) = CharAt(b, i) THEN StrLessFrom(a, b, i + 1)
    ELSE CharRank(CharAt(a, i)) < CharRank(CharAt(b, i))

\* a < b for strings over the token alphabet
StrLess(a, b) == StrLessFrom(a, b, 1)

\* " ".join(parts)
RECURSIVE JoinSpace(_)
JoinSpace(parts) ==
    IF parts = <<>> THEN ""
    ELSE IF Len(parts) = 1 THEN parts[1]
    ELSE parts[1] \o " " \o JoinSpace(Tail(parts))

\* the maximal runs of characters of s that belong (inside = TRUE) or do not belong
\* (inside = FALSE) to the character set C, from left to right
MaximalRuns(s, C, inside) ==
    LET Positions == [i \in 1..Len(s) |-> i]
        Runs(starts, ends) == [k \in 1..Len(starts) |-> SubSeq(s, starts[k], ends[k])]
        Bounds(good) ==
            Runs(SelectSeq(Positions, LAMBDA i : good[i] /\ (i = 1 \/ ~good[i - 1])),
                 SelectSeq(Positions, LAMBDA i : good[i] /\ (i = Len(s) \/ ~good[i + 1])))
    IN  Bounds([i \in 1..Len(s) |-> (CharAt(s, i) \in C) = inside])

\* re.findall(r"[a-z0-9_]+", raw)
FindRuns(raw) == MaximalRuns(raw, TokenChars, TRUE)

\* the non-empty pieces of re.split(r"[;,.!?]+", text)
SplitPunct(text) == MaximalRuns(text, SplitChars, FALSE)

SeqToSet(s) == {s[i] : i \in 1..Len(s)}

\* number of occurrences of x in the sequence s
CountIn(s, x) == Cardinality({i \in 1..Len(s) : s[i] = x})

\* the first occurrence of every element, in order (dict / seen-set order)
RECURSIVE Dedup(_, _)
Dedup(s, acc) ==
    IF s = <<>> THEN acc
    ELSE Dedup(Tail(s), IF Head(s) \in SeqToSet(acc) THEN acc ELSE Append(acc, Head(s)))

\* the element of the non-empty sequence s with the most occurrences, the one that
\* occurs first among equals (Counter.most_common(1), max over dict items)
MostCommon(s) ==
    LET Pick(order) ==
            order[CHOOSE i \in 1..Len(order) :
                    /\ \A j \in 1..Len(order) : CountIn(s, order[j]) <= CountIn(s, order[i])
                    /\ \A j \in 1..(i - 1) : CountIn(s, order[j]) < CountIn(s, order[i])]
    IN  Pick(Dedup(s, <<>>))

(***************************************************************************)
(* Section 2.  Streaming intent engine (streaming_intent_engine.py)         *)
(* Only the ASCII entries of the keyword, stop word and marker tables are   *)
(* listed: the texts of this model are ASCII, and a CJK entry can only      *)
(* match a text that contains CJK characters.                               *)
(***************************************************************************)

\* Optional[...] values: None is the empty tuple, a present value x is <<x>>
None == <<>>
Some(x) == <<x>>

INTENT_KEYWORDS ==
    [ sequential |-> <<"first", "then", "next", "after", "before", "finally", "step",
                       "loop", "if", "else", "while", "start", "end", "flow">>,
      structural |-> <<"component", "module", "service", "gateway", "layer",
                       "architecture", "system", "dependency", "interface">>,
      classification |-> <<"category", "group", "type", "branch", "cluster", "tree", "tag">>,
      relational |-> <<"entity", "table", "schema", "relationship", "join", "foreign",
                       "primary">>,
      contrastive |-> <<"compare", "versus", "vs", "difference", "ratio", "percentage",
                        "contrast">> ]

STOPWORDS ==
    {"the", "a", "an", "to", "of", "in", "on", "for", "and", "or", "we", "you", "it",
     "is", "are", "be", "this", "that", "with", "as", "by"}

BOUNDARY_MARKERS == {"next", "then", "finally", "meanwhile"}

\* EngineConfig defaults other than the three wait-k fields
min_boundary_tokens == 6
silence_boundary_ms == 1200
max_window_ms == 3800
token_budget_per_wait_k == 18

AllKeywords == UNION {SeqToSet(INTENT_KEYWORDS[it]) : it \in DOMAIN INTENT_KEYWORDS}

\* OnlineIntentClassifier.keyword_index
keyword_index ==
    [w \in AllKeywords |->
        CHOOSE it \in DOMAIN INTENT_KEYWORDS : w \in SeqToSet(INTENT_KEYWORDS[it])]

\* sort key (-len(x), x) of _extract_keywords
KeywordBefore(a, b) == Len(a) > Len(b) \/ (Len(a) = Len(b) /\ StrLess(a, b))

\* sorted(S, key=lambda x: (-len(x), x)): every element at the place its rank gives it
SortKeywords(S) ==
    LET Place(ranked) ==
            [k \in 1..Cardinality(S) |-> (CHOOSE p \in ranked : p[1] = k - 1)[2]]
    IN  Place({<<Cardinality({y \in S : KeywordBefore(y, x)}), x>> : x \in S})

\* sorted(self.classifier.keyword_index.keys(), key=lambda x: (-len(x), x))
SortedKeywords == SortKeywords(AllKeywords)

IsContentToken(t) == t # "" /\ t \notin STOPWORDS

tokenize(text) == SelectSeq(FindRuns(Lower(text)), IsContentToken)

\* round(num / den) for num >= 0, den > 0
RoundDiv(num, den) == (2 * num + den) \div (2 * den)

Clamp(lo, x, hi) == Max2(lo, Min2(x, hi))

\* OnlineIntentClassifier.classify from "if not tokens" on: intent and confidence (in
\* 1/10000) for a text of n tokens whose keyword hits are the intents hits, in the
\* order the scores counter met them
classify_hits(n, hits) ==
    LET Confidence(total_hits, top_hits) ==
            Clamp(3500,
                  RoundDiv(4500 * total_hits * n + 4000 * top_hits * n
                             + 1500 * total_hits * Min2(total_hits, n),
                           total_hits * n),
                  9600)
        Top(top_intent) ==
            [intent |-> top_intent,
             confidence |-> Confidence(Len(hits), CountIn(hits, top_intent))]
    IN  IF n = 0 THEN [intent |-> "generic", confidence |-> 3500]
        ELSE IF hits = <<>>
        THEN [intent |-> "generic", confidence |-> Min2(4200 + n * 100, 5500)]
        ELSE Top(MostCommon(hits))

\* OnlineIntentClassifier.classify: intent and confidence (in 1/10000)
classify(text) ==
    LET IsHit(t) == t \in AllKeywords
        HitsOf(hit_tokens) == [i \in 1..Len(hit_tokens) |-> keyword_index[hit_tokens[i]]]
        Scan(tokens) == classify_hits(Len(tokens), HitsOf(SelectSeq(tokens, IsHit)))
    IN  Scan(tokenize(text))

\* phrase candidates of _extract_keywords: stripped, cut to 20 characters, kept when
\* at least 2 characters long
PhraseCandidates(pieces) ==
    LET Cut(p) == IF Len(p) > 20 THEN SubSeq(p, 1, 20) ELSE p
        Long(p) == Len(p) >= 2
        CutAll(ps) == [i \in 1..Len(ps) |-> Cut(ps[i])]
    IN  SelectSeq(CutAll([i \in 1..Len(pieces) |-> Strip(pieces[i])]), Long)

\* sort key (-count, -len, token) of two items (token, count) of alpha_freq
AlphaBefore(a, b) ==
    \/ a[2] > b[2]
    \/ /\ a[2] = b[2]
       /\ KeywordBefore(a[1], b[1])

\* sorted(alpha_freq.items(), key=lambda x: (-x[1], -len(x[0]), x[0])), the keys
SortAlpha(tokens, S) ==
    LET Place(ranked) ==
            [k \in 1..Cardinality(S) |-> (CHOOSE p \in ranked : p[1] = k - 1)[2]]
        Rank(items) ==
            {<<Cardinality({other \in items : AlphaBefore(other, item)}), item[1]>> :
                item \in items}
    IN  Place(Rank({<<x, CountIn(tokens, x)>> : x \in S}))

\* the merge loop of _extract_keywords: skip candidates whose lower-cased form was seen
RECURSIVE MergeCandidates(_, _, _)
MergeCandidates(cands, merged, seen) ==
    LET Take(c, key) ==
            IF c = "" \/ key \in seen
            THEN MergeCandidates(Tail(cands), merged, seen)
            ELSE MergeCandidates(Tail(cands), Append(merged, c), seen \cup {key})
    IN  IF cands = <<>> \/ Len(merged) >= 8 THEN merged
        ELSE Take(Head(cands), Lower(Head(cands)))

\* StreamingIntentEngine._extract_keywords
extract_keywords(text, tokens) ==
    LET DomainHits(text_lower) ==
            SelectSeq(SortedKeywords, LAMBDA kw : Contains(text_lower, kw))
        IsAlpha(t) == Len(t) >= 3
        AlphaCandidates(alpha_tokens) == SortAlpha(alpha_tokens, SeqToSet(alpha_tokens))
        OrDefault(merged) == IF merged = <<>> THEN <<"core_step">> ELSE merged
    IN  OrDefault(MergeCandidates(DomainHits(Lower(text))
                                    \o PhraseCandidates(SplitPunct(text))
                                    \o AlphaCandidates(SelectSeq(tokens, IsAlpha)),
                                  <<>>, {}))

\* StreamingIntentEngine._semantic_novelty: the novelty as the fraction num/den
semantic_novelty(last_keywords, keywords) ==
    LET prev == SeqToSet(last_keywords)
        cur == SeqToSet(keywords)
    IN  IF last_keywords = <<>> THEN [num |-> 1, den |-> 1]
        ELSE IF prev \cup cur = {} THEN [num |-> 0, den |-> 1]
        ELSE [num |-> Cardinality(prev \cup cur) - Cardinality(prev \cap cur),
              den |-> Cardinality(prev \cup cur)]

\* faulty variant of update_wait_k: the novelty is not looked at
wait_k_by_confidence(config, confidence, novelty) ==
    LET up == IF confidence >= 7800 THEN 1 ELSE 0
        down == IF confidence < 5200 THEN 1 ELSE 0
    IN  Max2(config.min_wait_k, Min2(config.base_wait_k + up - down, config.max_wait_k))

\* StreamingIntentEngine._update_wait_k: the new current_wait_k
update_wait_k(config, confidence, novelty) ==
    LET up == IF confidence >= 7800 /\ novelty.num * 100 <= 35 * novelty.den
              THEN 1 ELSE 0
        down == IF confidence < 5200 \/ novelty.num * 10 >= 8 * novelty.den
                THEN 1 ELSE 0
    IN  Max2(config.min_wait_k, Min2(config.base_wait_k + up - down, config.max_wait_k))

\* f"u{update_id}_n{i}"
NodeId(update_id, i) == <<update_id, i>>

\* faulty variant of build_incremental_ops: hub edges whatever the intent
hub_for_all_ops(update_id, keywords, intent_type) ==
    LET K == Min2(6, Len(keywords))
    IN  [i \in 1..K |-> [op |-> "add_node", id |-> NodeId(update_id, i),
                         label |-> keywords[i], intent |-> intent_type]]
        \o [i \in 1..(K - 1) |-> [op |-> "add_edge", from |-> NodeId(update_id, 1),
                                   to |-> NodeId(update_id, i + 1)]]

\* faulty variant of build_incremental_ops: no edge inside the update, one edge from
\* the first node of the previous update to the first node of this one
ops_bridging_updates(update_id, keywords, intent_type) ==
    LET K == Min2(6, Len(keywords))
        bridges == IF update_id > 1 /\ K >= 1 THEN 1 ELSE 0
    IN  [i \in 1..K |-> [op |-> "add_node", id |-> NodeId(update_id, i),
                         label |-> keywords[i], intent |-> intent_type]]
        \o [i \in 1..bridges |-> [op |-> "add_edge", from |-> NodeId(update_id - 1, 1),
                                   to |-> NodeId(update_id, 1)]]

\* StreamingIntentEngine._build_incremental_ops
build_incremental_ops(update_id, keywords, intent_type) ==
    LET K == Min2(6, Len(keywords))
        node_ops == [i \in 1..K |->
                       [op |-> "add_node", id |-> NodeId(update_id, i),
                        label |-> keywords[i], intent |-> intent_type]]
        chain == [i \in 1..(K - 1) |->
                       [op |-> "add_edge", from |-> NodeId(update_id, i),
                        to |-> NodeId(update_id, i + 1)]]
        hub == [i \in 1..(K - 1) |->
                       [op |-> "add_edge", from |-> NodeId(update_id, 1),
                        to |-> NodeId(update_id, i + 1)]]
    IN  IF intent_type \in {"sequential", "contrastive"} /\ K >= 2 THEN node_ops \o chain
        ELSE IF intent_type \in {"relational", "structural"} /\ K >= 2 THEN node_ops \o hub
        ELSE node_ops

IntentTypes ==
    {"sequential", "structural", "classification", "relational", "contrastive", "generic"}
BoundaryReasons ==
    {"silence_gap", "max_window_ms", "sentence_end", "discourse_marker", "token_budget",
     "stream_end"}
\* faulty variant of HardReasons: no reason passes the wait-k gate unconditionally
NoHardReasons == {}

\* the reasons that ingest dispatches whatever the number of pending chunks
HardReasons == {"max_window_ms", "silence_gap"}

\* StreamingIntentEngine.__init__
NewEngine(config) ==
    [ config |-> config,
      pending |-> <<>>,
      pending_arrive_wall_ms |-> <<>>,
      pending_tokens |-> 0,
      current_wait_k |-> config.base_wait_k,
      update_id |-> 0,
      last_chunk_ts |-> None,
      last_keywords |-> <<>>,
      metrics |-> [latency_ms |-> <<>>, update_duration_ms |-> <<>>,
                   tokens_per_update |-> <<>>],
      intent_counter |-> [it \in IntentTypes |-> 0],
      boundary_counter |-> [br \in BoundaryReasons |-> 0] ]

MinOfSeq(s) == CHOOSE v \in SeqToSet(s) : \A w \in SeqToSet(s) : v <= w
MaxOfSeq(s) == CHOOSE v \in SeqToSet(s) : \A w \in SeqToSet(s) : v >= w

\* faulty variant of should_dispatch_reason: the sentence end is tested before the
\* silence gap and the window
soft_first_dispatch_reason(e, latest, gap_ms) ==
    LET tokens == e.pending_tokens
        window_ms == Max2(0, latest.timestamp_ms - e.pending[1].timestamp_ms)
        EndsSentence(latest_text) ==
            latest_text # "" /\ CharAt(latest_text, Len(latest_text)) \in SentenceEndChars
        Reason(latest_text) ==
            IF EndsSentence(latest_text) /\ tokens >= min_boundary_tokens
            THEN "sentence_end"
            ELSE IF gap_ms >= silence_boundary_ms /\ tokens >= min_boundary_tokens
            THEN "silence_gap"
            ELSE IF window_ms >= max_window_ms THEN "max_window_ms"
            ELSE IF tokens >= e.current_wait_k * token_budget_per_wait_k
            THEN "token_budget"
            ELSE "none"
    IN  IF e.pending = <<>> THEN "none" ELSE Reason(Strip(latest.text))

\* faulty variant of should_dispatch_reason: the window boundary asks for
\* min_boundary_tokens as the other boundaries do
window_needs_tokens(e, latest, gap_ms) ==
    LET tokens == e.pending_tokens
        window_ms == Max2(0, latest.timestamp_ms - e.pending[1].timestamp_ms)
        EndsSentence(latest_text) ==
            latest_text # "" /\ CharAt(latest_text, Len(latest_text)) \in SentenceEndChars
        HasMarker(lower) == \E m \in BOUNDARY_MARKERS : StartsWith(lower, m)
        Reason(latest_text) ==
            IF gap_ms >= silence_boundary_ms /\ tokens >= min_boundary_tokens
            THEN "silence_gap"
            ELSE IF window_ms >= max_window_ms /\ tokens >= min_boundary_tokens
            THEN "max_window_ms"
            ELSE IF EndsSentence(latest_text) /\ tokens >= min_boundary_tokens
            THEN "sentence_end"
            ELSE IF HasMarker(Lower(latest_text)) /\ tokens >= min_boundary_tokens
            THEN "discourse_marker"
            ELSE IF tokens >= e.current_wait_k * token_budget_per_wait_k
            THEN "token_budget"
            ELSE "none"
    IN  IF e.pending = <<>> THEN "none" ELSE Reason(Strip(latest.text))

\* StreamingIntentEngine._should_dispatch_reason, "none" for None; e is the engine after
\* the latest chunk was appended
should_dispatch_reason(e, latest, gap_ms) ==
    LET tokens == e.pending_tokens
        window_ms == Max2(0, latest.timestamp_ms - e.pending[1].timestamp_ms)
        EndsSentence(latest_text) ==
            latest_text # "" /\ CharAt(latest_text, Len(latest_text)) \in SentenceEndChars
        HasMarker(lower) == \E m \in BOUNDARY_MARKERS : StartsWith(lower, m)
        Reason(latest_text) ==
            IF gap_ms >= silence_boundary_ms /\ tokens >= min_boundary_tokens
            THEN "silence_gap"
            ELSE IF window_ms >= max_window_ms THEN "max_window_ms"
            ELSE IF EndsSentence(latest_text) /\ tokens >= min_boundary_tokens
            THEN "sentence_end"
            ELSE IF HasMarker(Lower(latest_text)) /\ tokens >= min_boundary_tokens
            THEN "discourse_marker"
            ELSE IF tokens >= e.current_wait_k * token_budget_per_wait_k
            THEN "token_budget"
            ELSE "none"
    IN  IF e.pending = <<>> THEN "none" ELSE Reason(Strip(latest.text))

\* faulty variant of next_update_id: the counter is not advanced
stale_update_id(e) == e.update_id

\* self.update_id += 1 of _dispatch: the id of the update being dispatched
next_update_id(e) == e.update_id + 1

\* faulty variant of dispatched_chunks: only the newest pending chunk goes into the
\* update, the older ones are dropped with the buffer
latest_chunk_only(e) == <<e.pending[Len(e.pending)]>>

\* chunks = list(self.pending) of _dispatch: the update takes the whole buffer
dispatched_chunks(e) == e.pending

\* StreamingIntentEngine._dispatch: the engine afterwards and the update; now_ms is the
\* wall clock read at the dispatch
dispatch(e, reason, now_ms) ==
    LET update_id == next_update_id(e)
        chunks == dispatched_chunks(e)
        start_ms == chunks[1].timestamp_ms
        end_ms == chunks[Len(chunks)].timestamp_ms
        duration_ms == Max2(0, end_ms - start_ms)
        NonBlank(text) == text # ""
        Texts(cs) == SelectSeq([i \in 1..Len(cs) |-> Strip(cs[i].text)], NonBlank)
        Latency(arrive_times) ==
            IF arrive_times = <<>> THEN 0 ELSE Max2(0, now_ms - MinOfSeq(arrive_times))
        Emit(joined, token_count, cls, keywords, wait_k, operations, process_latency_ms) ==
            [ engine |->
                [e EXCEPT !.update_id = update_id,
                          !.pending = <<>>,
                          !.pending_arrive_wall_ms = <<>>,
                          !.pending_tokens = 0,
                          !.last_keywords = keywords,
                          !.current_wait_k = wait_k,
                          !.metrics =
                              [latency_ms |-> Append(@.latency_ms, process_latency_ms),
                               update_duration_ms |->
                                   Append(@.update_duration_ms, duration_ms),
                               tokens_per_update |->
                                   Append(@.tokens_per_update, token_count)],
                          !.intent_counter[cls.intent] = @ + 1,
                          !.boundary_counter[reason] = @ + 1],
              updates |->
                << [ update_id |-> update_id,
                     start_ms |-> start_ms,
                     end_ms |-> end_ms,
                     duration_ms |-> duration_ms,
                     boundary_reason |-> reason,
                     intent_type |-> cls.intent,
                     intent_confidence |-> cls.confidence,
                     wait_k_used |-> wait_k,
                     token_count |-> token_count,
                     chunk_count |-> Len(chunks),
                     keywords |-> keywords,
                     operations |-> operations,
                     transcript_text |-> joined,
                     processing_latency_ms |-> process_latency_ms ] >> ]
        Adapt(joined, token_count, cls, keywords) ==
            Emit(joined, token_count, cls, keywords,
                 update_wait_k(e.config, cls.confidence,
                               semantic_novelty(e.last_keywords, keywords)),
                 build_incremental_ops(update_id, keywords, cls.intent),
                 Latency(e.pending_arrive_wall_ms))
        Analyse(joined, tokens) ==
            Adapt(joined, Len(tokens), classify(joined), extract_keywords(joined, tokens))
        Join(joined) == Analyse(joined, tokenize(joined))
    IN  Join(JoinSpace(Texts(chunks)))

\* faulty variant of engine_ingest: a blank chunk is not buffered but its timestamp is
\* taken as last_chunk_ts
ingest_stamping_blank(e, chunk, arrive_ms, now_ms) ==
    LET gap_ms == IF e.last_chunk_ts = None THEN 0
                  ELSE Max2(0, chunk.timestamp_ms - e.last_chunk_ts[1])
        Decide(e1, reason) ==
            IF reason = "none" THEN [engine |-> e1, updates |-> <<>>]
            ELSE IF Len(e1.pending) < e1.current_wait_k /\ reason \notin HardReasons
            THEN [engine |-> e1, updates |-> <<>>]
            ELSE dispatch(e1, reason, now_ms)
        Appended(e1) == Decide(e1, should_dispatch_reason(e1, chunk, gap_ms))
        Accept(text) ==
            IF text = ""
            THEN [engine |-> [e EXCEPT !.last_chunk_ts = Some(chunk.timestamp_ms)],
                  updates |-> <<>>]
            ELSE Appended([e EXCEPT !.last_chunk_ts = Some(chunk.timestamp_ms),
                                    !.pending = Append(@, chunk),
                                    !.pending_arrive_wall_ms = Append(@, arrive_ms),
                                    !.pending_tokens = @ + Len(tokenize(text))])
    IN  Accept(Strip(chunk.text))

\* faulty variant of engine_ingest: pending_tokens counts the chunks, not their tokens
ingest_counting_chunks(e, chunk, arrive_ms, now_ms) ==
    LET gap_ms == IF e.last_chunk_ts = None THEN 0
                  ELSE Max2(0, chunk.timestamp_ms - e.last_chunk_ts[1])
        Decide(e1, reason) ==
            IF reason = "none" THEN [engine |-> e1, updates |-> <<>>]
            ELSE IF Len(e1.pending) < e1.current_wait_k /\ reason \notin HardReasons
            THEN [engine |-> e1, updates |-> <<>>]
            ELSE dispatch(e1, reason, now_ms)
        Appended(e1) == Decide(e1, should_dispatch_reason(e1, chunk, gap_ms))
        Accept(text) ==
            IF text = "" THEN [engine |-> e, updates |-> <<>>]
            ELSE Appended([e EXCEPT !.last_chunk_ts = Some(chunk.timestamp_ms),
                                    !.pending = Append(@, chunk),
                                    !.pending_arrive_wall_ms = Append(@, arrive_ms),
                                    !.pending_tokens = @ + 1])
    IN  Accept(Strip(chunk.text))

\* StreamingIntentEngine.ingest: the engine afterwards and the list of updates (0 or 1);
\* arrive_ms and now_ms are the wall clock reads of the append and of the dispatch
engine_ingest(e, chunk, arrive_ms, now_ms) ==
    LET gap_ms == IF e.last_chunk_ts = None THEN 0
                  ELSE Max2(0, chunk.timestamp_ms - e.last_chunk_ts[1])
        Decide(e1, reason) ==
            IF reason = "none" THEN [engine |-> e1, updates |-> <<>>]
            ELSE IF Len(e1.pending) < e1.current_wait_k /\ reason \notin HardReasons
            THEN [engine |-> e1, updates |-> <<>>]
            ELSE dispatch(e1, reason, now_ms)
        Appended(e1) == Decide(e1, should_dispatch_reason(e1, chunk, gap_ms))
        Accept(text) ==
            IF text = "" THEN [engine |-> e, updates |-> <<>>]
            ELSE Appended([e EXCEPT !.last_chunk_ts = Some(chunk.timestamp_ms),
                                    !.pending = Append(@, chunk),
                                    !.pending_arrive_wall_ms = Append(@, arrive_ms),
                                    !.pending_tokens = @ + Len(tokenize(text))])
    IN  Accept(Strip(chunk.text))

\* faulty variant of engine_flush: the pending chunks are never dispatched
engine_flush_nothing(e, now_ms) == [engine |-> e, updates |-> <<>>]

\* StreamingIntentEngine.flush
engine_flush(e, now_ms) ==
    IF e.pending = <<>> THEN [engine |-> e, updates |-> <<>>]
    ELSE dispatch(e, "stream_end", now_ms)

(***************************************************************************)
(* Section 3.  Incremental renderer (incremental_renderer.py)               *)
(* Coordinates, distances and displacements are integers in 1/100 pixel;    *)
(* scores are integers in 1/10000.                                          *)
(***************************************************************************)

\* renderer parameters, in 1/100 pixel
min_distance == 8000
local_relax_iters == 6
mental_map_scale == 3200
\* the per axis clamp of one relaxation move (24.0 pixel) and the force gain (18.0)
max_relax_move == 2400
relax_gain == 18

\* 1000000 * math.cos(math.radians(deg)) for deg = 0..359, rounded
CosTable ==
    << 1000000, 999848, 999391, 998630, 997564, 996195, 994522, 992546, 990268, 987688,
       984808, 981627, 978148, 974370, 970296, 965926, 961262, 956305, 951057, 945519,
       939693, 933580, 927184, 920505, 913545, 906308, 898794, 891007, 882948, 874620,
       866025, 857167, 848048, 838671, 829038, 819152, 809017, 798636, 788011, 777146,
       766044, 754710, 743145, 731354, 719340, 707107, 694658, 681998, 669131, 656059,
       642788, 629320, 615661, 601815, 587785, 573576, 559193, 544639, 529919, 515038,
       500000, 484810, 469472, 453990, 438371, 422618, 406737, 390731, 374607, 358368,
       342020, 325568, 309017, 292372, 275637, 258819, 241922, 224951, 207912, 190809,
       173648, 156434, 139173, 121869, 104528, 87156, 69756, 52336, 34899, 17452,
       0, -17452, -34899, -52336, -69756, -87156, -104528, -121869, -139173, -156434,
       -173648, -190809, -207912, -224951, -241922, -258819, -275637, -292372, -309017, -325568,
       -342020, -358368, -374607, -390731, -406737, -422618, -438371, -453990, -469472, -484810,
       -500000, -515038, -529919, -544639, -559193, -573576, -587785, -601815, -615661, -629320,
       -642788, -656059, -669131, -681998, -694658, -707107, -719340, -731354, -743145, -754710,
       -766044, -777146, -788011, -798636, -809017, -819152, -829038, -838671, -848048, -857167,
       -866025, -874620, -882948, -891007, -898794, -906308, -913545, -920505, -927184, -933580,
       -939693, -945519, -951057, -956305, -961262, -965926, -970296, -974370, -978148, -981627,
       -984808, -987688, -990268, -992546, -994522, -996195, -997564, -998630, -999391, -999848,
       -1000000, -999848, -999391, -998630, -997564, -996195, -994522, -992546, -990268, -987688,
       -984808, -981627, -978148, -974370, -970296, -965926, -961262, -956305, -951057, -945519,
       -939693, -933580, -927184, -920505, -913545, -906308, -898794, -891007, -882948, -874620,
       -866025, -857167, -848048, -838671, -829038, -819152, -809017, -798636, -788011, -777146,
       -766044, -754710, -743145, -731354, -719340, -707107, -694658, -681998, -669131, -656059,
       -642788, -629320, -615661, -601815, -587785, -573576, -559193, -544639, -529919, -515038,
       -500000, -484810, -469472, -453990, -438371, -422618, -406737, -390731, -374607, -358368,
       -342020, -325568, -309017, -292372, -275637, -258819, -241922, -224951, -207912, -190809,
       -173648, -156434, -139173, -121869, -104528, -87156, -69756, -52336, -34899, -17452,
       0, 17452, 34899, 52336, 69756, 87156, 104528, 121869, 139173, 156434,
       173648, 190809, 207912, 224951, 241922, 258819, 275637, 292372, 309017, 325568,
       342020, 358368, 374607, 390731, 406737, 422618, 438371, 453990, 469472, 484810,
       500000, 515038, 529919, 544639, 559193, 573576, 587785, 601815, 615661, 629320,
       642788, 656059, 669131, 681998, 694658, 707107, 719340, 731354, 743145, 754710,
       766044, 777146, 788011, 798636, 809017, 819152, 829038, 838671, 848048, 857167,
       866025, 874620, 882948, 891007, 898794, 906308, 913545, 920505, 927184, 933580,
       939693, 945519, 951057, 956305, 961262, 965926, 970296, 974370, 978148, 981627,
       984808, 987688, 990268, 992546, 994522, 996195, 997564, 998630, 999391, 999848 >>

Abs(v) == IF v < 0 THEN 0 - v ELSE v

\* num / den rounded to the nearest integer, for den > 0 and any sign of num
SRound(num, den) == IF num >= 0 THEN RoundDiv(num, den) ELSE 0 - RoundDiv(0 - num, den)

\* the integer square root of v, for 0 <= v < 2^30: its three digits in base 36
ISqrt(v) ==
    LET Digit(base, step) ==
            CHOOSE a \in 0..35 :
                /\ (base + a * step) * (base + a * step) <= v
                /\ (a = 35 \/ (base + (a + 1) * step) * (base + (a + 1) * step) > v)
        Low(base) == base + Digit(base, 1)
        Mid(base) == Low(base + 36 * Digit(base, 36))
    IN  Mid(1296 * Digit(0, 1296))

\* math.hypot(dx, dy), for |dx|, |dy| <= 23170
Hypot(dx, dy) == ISqrt(dx * dx + dy * dy)

\* IncrementalGraphRenderer.__init__; nodes is the dict in insertion order
NewRenderer == [nodes |-> <<>>, edges |-> {}, frame_id |-> 0, frames |-> <<>>]

NodeIds(nodes) == {nodes[i].id : i \in 1..Len(nodes)}
NodeIndex(nodes, nid) == CHOOSE i \in 1..Len(nodes) : nodes[i].id = nid

\* the point at the given radius (in pixel) and angle (in degrees) around origin;
\* sin(deg) = cos(deg - 90)
Polar(origin, radius, deg) ==
    LET At(cos) == [x |-> origin.x + SRound(radius * cos[deg + 1], 10000),
                    y |-> origin.y + SRound(radius * cos[((deg + 270) % 360) + 1], 10000)]
    IN  At(CosTable)

\* IncrementalGraphRenderer._initial_position; anchor_id is an Optional node id
initial_position(nodes, anchor_id, intent_type) ==
    LET idx == Len(nodes)
    IN  IF anchor_id # None /\ anchor_id[1] \in NodeIds(nodes)
        THEN Polar(nodes[NodeIndex(nodes, anchor_id[1])], 90 + 10 * (idx % 3),
                   (idx * 47) % 360)
        ELSE IF intent_type \in {"sequential", "contrastive"}
        THEN [x |-> idx * 160 * 100, y |-> (idx % 3) * 80 * 100]
        ELSE IF intent_type \in {"structural", "relational"}
        THEN Polar([x |-> 0, y |-> 0], 120 + 16 * (idx \div 8), (idx * 37) % 360)
        ELSE [x |-> (idx % 8) * 140 * 100, y |-> (idx \div 8) * 90 * 100]

\* the anchor scan of apply_update: anchor_for_new.setdefault(dst, src) over the edges
AnchorFor(operations, nid) ==
    LET hits == {i \in 1..Len(operations) :
                    operations[i].op = "add_edge" /\ operations[i].to = nid}
    IN  IF hits = {} THEN None
        ELSE Some(operations[CHOOSE i \in hits : \A j \in hits : i <= j].from)

\* faulty variant of EnsureNode: a new node replaces the nodes of earlier frames
ReplaceNodes(st, nid, label, anchor_id, intent_type, frame_id) ==
    LET Kept(nodes) == SelectSeq(nodes, LAMBDA n : n.created_frame = frame_id)
        Place(pos) ==
            [st EXCEPT !.nodes = Append(Kept(@), [id |-> nid, label |-> label,
                                                  x |-> pos.x, y |-> pos.y,
                                                  created_frame |-> frame_id]),
                       !.touched_nodes = @ \cup {nid},
                       !.added_nodes = Append(@, nid)]
    IN  IF nid \in NodeIds(st.nodes) THEN st
        ELSE Place(initial_position(st.nodes, anchor_id, intent_type))

\* self.nodes[nid] = NodeState(...) at the initial position, when nid is not a node yet;
\* st holds nodes, edges, touched_nodes, added_nodes, added_edges
EnsureNode(st, nid, label, anchor_id, intent_type, frame_id) ==
    LET Place(pos) ==
            [st EXCEPT !.nodes = Append(@, [id |-> nid, label |-> label,
                                            x |-> pos.x, y |-> pos.y,
                                            created_frame |-> frame_id]),
                       !.touched_nodes = @ \cup {nid},
                       !.added_nodes = Append(@, nid)]
    IN  IF nid \in NodeIds(st.nodes) THEN st
        ELSE Place(initial_position(st.nodes, anchor_id, intent_type))

\* self.edges.add(edge) when the edge is new
EnsureEdge(st, src, dst) ==
    IF <<src, dst>> \in st.edges THEN st
    ELSE [st EXCEPT !.edges = @ \cup {<<src, dst>>}, !.added_edges = @ + 1]

\* one operation of the main loop of apply_update
ApplyOp(st, op, operations, intent_type, frame_id) ==
    IF op.op = "add_node"
    THEN IF op.id \in NodeIds(st.nodes)
         THEN [st EXCEPT !.touched_nodes = @ \cup {op.id},
                         !.nodes[NodeIndex(st.nodes, op.id)].label = op.label]
         ELSE EnsureNode(st, op.id, op.label, AnchorFor(operations, op.id), intent_type,
                         frame_id)
    ELSE IF op.op = "add_edge"
    THEN EnsureEdge(EnsureNode(EnsureNode(st, op.from, op.from, None, intent_type,
                                          frame_id),
                               op.to, op.to, Some(op.from), intent_type, frame_id),
                    op.from, op.to)
    ELSE st

\* the main loop of apply_update from operation k on
RECURSIVE ApplyOps(_, _, _, _, _)
ApplyOps(st, k, operations, intent_type, frame_id) ==
    IF k > Len(operations) THEN st
    ELSE Then(ApplyOp(st, operations[k], operations, intent_type, frame_id),
              LAMBDA next : ApplyOps(next, k + 1, operations, intent_type, frame_id))

\* sum(values)
RECURSIVE SumSeq(_)
SumSeq(s) ==
    IF Len(s) = 0 THEN 0
    ELSE IF Len(s) = 1 THEN s[1]
    ELSE LET h == Len(s) \div 2
         IN  SumSeq(SubSeq(s, 1, h)) + SumSeq(SubSeq(s, h + 1, Len(s)))

\* the repulsion of node o on node n inside _local_relax_new_nodes, per axis, in 1/10000;
\* a pair at least min_distance apart on one axis is at least min_distance apart
Repulsion(n, o) ==
    LET Push(dx, dy, dist) ==
            IF dist >= min_distance \/ dist = 0 THEN [fx |-> 0, fy |-> 0]
            ELSE [fx |-> SRound(SRound(dx * (min_distance - dist), dist) * 10000,
                                min_distance),
                  fy |-> SRound(SRound(dy * (min_distance - dist), dist) * 10000,
                                min_distance)]
        Near(dx, dy) ==
            IF Abs(dx) >= min_distance \/ Abs(dy) >= min_distance
            THEN [fx |-> 0, fy |-> 0]
            ELSE Push(dx, dy, Hypot(dx, dy))
    IN  Near(n.x - o.x, n.y - o.y)

\* one pass of the inner loop of _local_relax_new_nodes for the node at index i
RelaxNode(nodes, i) ==
    LET Others(n) == SelectSeq(nodes, LAMBDA o : o.id # n.id)
        Forces(n, others) == [k \in 1..Len(others) |-> Repulsion(n, others[k])]
        Move(reps) ==
            [nodes EXCEPT
                ![i].x = @ + Clamp(0 - max_relax_move,
                                   SRound(SumSeq([k \in 1..Len(reps) |-> reps[k].fx])
                                            * relax_gain, 100),
                                   max_relax_move),
                ![i].y = @ + Clamp(0 - max_relax_move,
                                   SRound(SumSeq([k \in 1..Len(reps) |-> reps[k].fy])
                                            * relax_gain, 100),
                                   max_relax_move)]
    IN  Move(Forces(nodes[i], Others(nodes[i])))

\* the inner loop "for nid in new_ids" from position k on
RECURSIVE RelaxPass(_, _, _)
RelaxPass(nodes, new_ids, k) ==
    IF k > Len(new_ids) THEN nodes
    ELSE Then(IF new_ids[k] \in NodeIds(nodes)
              THEN RelaxNode(nodes, NodeIndex(nodes, new_ids[k]))
              ELSE nodes,
              LAMBDA next : RelaxPass(next, new_ids, k + 1))

\* the outer loop "for _ in range(local_relax_iters)" with iters passes to go
RECURSIVE RelaxIters(_, _, _)
RelaxIters(nodes, new_ids, iters) ==
    IF iters = 0 THEN nodes
    ELSE Then(RelaxPass(nodes, new_ids, 1),
              LAMBDA next : RelaxIters(next, new_ids, iters - 1))

\* faulty variant of local_relax_new_nodes: the oldest node of the graph is relaxed
\* along with the new ones
relax_with_oldest(nodes, new_ids) ==
    IF new_ids = <<>> THEN nodes
    ELSE RelaxIters(nodes, <<nodes[1].id>> \o new_ids, local_relax_iters)

\* faulty variant of local_relax_new_nodes: every node is relaxed, not only the new ones
relax_all_nodes(nodes, new_ids) ==
    IF new_ids = <<>> THEN nodes
    ELSE RelaxIters(nodes, [i \in 1..Len(nodes) |-> nodes[i].id], local_relax_iters)

\* IncrementalGraphRenderer._local_relax_new_nodes: the node list afterwards
local_relax_new_nodes(nodes, new_ids) ==
    IF new_ids = <<>> THEN nodes ELSE RelaxIters(nodes, new_ids, local_relax_iters)

\* sorted(values)
SortInts(a) ==
    LET Place(ranked) ==
            [k \in 1..Len(a) |-> a[(CHOOSE p \in ranked : p[1] = k - 1)[2]]]
    IN  Place({<<Cardinality({j \in 1..Len(a) : a[j] < a[i] \/ (a[j] = a[i] /\ j < i)}), i>> :
                  i \in 1..Len(a)})

\* int(round(num / den)) with Python's round half to even, num >= 0, den > 0
RoundHalfEven(num, den) ==
    LET q == num \div den
        r == num % den
    IN  IF 2 * r < den THEN q
        ELSE IF 2 * r > den THEN q + 1
        ELSE IF q % 2 = 0 THEN q ELSE q + 1

\* _pctl(values, p) for 0 < p < 100
pctl(values, p) ==
    IF values = <<>> THEN 0
    ELSE SortInts(values)[RoundHalfEven((Len(values) - 1) * p, 100) + 1]

\* IncrementalGraphRenderer._build_frame_metrics; prev_nodes holds the positions before
build_frame_metrics(nodes, edges, frame_id, update_id, prev_nodes, touched_nodes,
                    added_nodes, added_edges) ==
    LET IsCommon(o) == o.id \in NodeIds(nodes)
        IsUnchanged(o) == o.id \notin touched_nodes
        Now(o) == nodes[NodeIndex(nodes, o.id)]
        Disps(old) == [i \in 1..Len(old) |->
                          Hypot(Now(old[i]).x - old[i].x, Now(old[i]).y - old[i].y)]
        Frame(disps, unchanged_disps, total, count) ==
            [ frame_id |-> frame_id,
              update_id |-> update_id,
              node_count |-> Len(nodes),
              edge_count |-> Cardinality(edges),
              touched_nodes |-> touched_nodes,
              added_nodes |-> added_nodes,
              added_edges |-> added_edges,
              flicker_index |-> RoundDiv(total, Max2(count, 1)),
              mean_displacement |-> IF count = 0 THEN 0 ELSE RoundDiv(total, count),
              p95_displacement |-> pctl(disps, 95),
              unchanged_max_drift |->
                  IF unchanged_disps = <<>> THEN 0 ELSE MaxOfSeq(unchanged_disps),
              mental_map_score |->
                  IF count = 0 THEN 10000
                  ELSE Max2(0, 10000 - RoundDiv(total * 100,
                                                count * (mental_map_scale \div 100))) ]
        Measure(disps, unchanged_disps) ==
            Frame(disps, unchanged_disps, SumSeq(disps), Len(disps))
        Compare(common) == Measure(Disps(common), Disps(SelectSeq(common, IsUnchanged)))
    IN  Compare(SelectSeq(prev_nodes, IsCommon))

\* IncrementalGraphRenderer.apply_update: the renderer afterwards and the frame
apply_update(r, update_id, operations, intent_type) ==
    LET frame_id == r.frame_id + 1
        Finish(st, relaxed, frame) ==
            [ renderer |-> [nodes |-> relaxed, edges |-> st.edges, frame_id |-> frame_id,
                            frames |-> Append(r.frames, frame)],
              frame |-> frame ]
        Metrics(st, relaxed) ==
            Finish(st, relaxed,
                   build_frame_metrics(relaxed, st.edges, frame_id, update_id, r.nodes,
                                       st.touched_nodes, st.added_nodes, st.added_edges))
        Relax(st) == Metrics(st, local_relax_new_nodes(st.nodes, st.added_nodes))
    IN  Relax(ApplyOps([nodes |-> r.nodes, edges |-> r.edges, touched_nodes |-> {},
                        added_nodes |-> <<>>, added_edges |-> 0],
                       1, operations, intent_type, frame_id))

(***************************************************************************)
(* Section 4.  Session state (realtime_frontend_server.py, SessionState)    *)
(***************************************************************************)

\* statistics.median, in 1/10000
Median10k(values) ==
    LET Middle(arr, n) ==
            IF n % 2 = 1 THEN arr[(n + 1) \div 2] * 10000
            ELSE (arr[n \div 2] + arr[(n \div 2) + 1]) * 5000
    IN  Middle(SortInts(values), Len(values))

\* _stats(values); mean and p50 are in 1/10000 of the unit of the values
stats(values) ==
    IF values = <<>> THEN [count |-> 0, mean |-> 0, p50 |-> 0, p95 |-> 0, max |-> 0]
    ELSE [count |-> Len(values),
          mean |-> RoundDiv(SumSeq(values) * 10000, Len(values)),
          p50 |-> Median10k(values),
          p95 |-> pctl(values, 95),
          max |-> MaxOfSeq(values)]

\* a value of a JSON request body as json.loads returns it: a str or a list
JsonString(text) == [json |-> "string", value |-> text]
JsonArray(items) == [json |-> "array", value |-> items]
JsonBool(b) == [json |-> "bool", value |-> b]
JsonNull == [json |-> "null", value |-> <<>>]

\* Python's bool() of a decoded JSON value
py_bool(v) ==
    CASE v.json = "bool" -> v.value
      [] v.json = "null" -> FALSE
      [] v.json = "string" -> v.value # ""
      [] v.json = "array" -> v.value # <<>>

\* bool(payload.get("close_after_flush", True)); field is the Optional value of the key
close_after_flush_of(field) == IF field = None THEN TRUE ELSE py_bool(field[1])

\* bool(v): the empty string and the empty list are false
Truthy(v) == IF v.json = "string" THEN v.value # "" ELSE v.value # <<>>

\* v can be a dict key: a list is unhashable
Hashable(v) == v.json = "string"

\* the outcome of a call: a returned value or a raised exception
Return(v) == [raised |-> FALSE, value |-> v]
Raise(error) == [raised |-> TRUE, error |-> error]

\* the majority vote with the window left out: every labeled chunk of the session votes
majority_label_anywhere(labeled_chunks, start_ms, end_ms) ==
    LET Counts(lc) == lc[2] # None /\ Truthy(lc[2][1])
        Labels(hits) == [i \in 1..Len(hits) |-> hits[i][2][1]]
        Majority(labels) ==
            IF \E i \in 1..Len(labels) : ~Hashable(labels[i]) THEN Raise("TypeError")
            ELSE IF labels = <<>> THEN Return(None)
            ELSE Return(Some(MostCommon(labels)))
    IN  Majority(Labels(SelectSeq(labeled_chunks, Counts)))

\* _majority_label_in_range: an Optional label returned, or the TypeError of
\* counts[label] for an unhashable label; an entry of labeled_chunks is
\* <<timestamp_ms, Optional label>>
majority_label_in_range(labeled_chunks, start_ms, end_ms) ==
    LET Counts(lc) ==
            lc[2] # None /\ Truthy(lc[2][1]) /\ start_ms <= lc[1] /\ lc[1] <= end_ms
        Labels(hits) == [i \in 1..Len(hits) |-> hits[i][2][1]]
        Majority(labels) ==
            IF \E i \in 1..Len(labels) : ~Hashable(labels[i]) THEN Raise("TypeError")
            ELSE IF labels = <<>> THEN Return(None)
            ELSE Return(Some(MostCommon(labels)))
    IN  Majority(Labels(SelectSeq(labeled_chunks, Counts)))

\* SessionState(...) as built by /api/session/create; lock is the id of the holding
\* request thread, 0 when free
NewSession(session_id, config, created_wall_ms) ==
    [ session_id |-> session_id,
      config |-> config,
      engine |-> NewEngine(config),
      renderer |-> NewRenderer,
      created_wall_ms |-> created_wall_ms,
      lock |-> 0,
      events |-> <<>>,
      labeled_chunks |-> <<>>,
      chunk_count |-> 0,
      first_ts |-> None,
      last_ts |-> None,
      e2e_latencies |-> <<>>,
      update_latencies |-> <<>>,
      render_latencies |-> <<>> ]

\* one turn of the loop of SessionState._consume_updates: the session afterwards and
\* whether the turn raised (the renderer has applied the update by then)
consume_update(s, update, render_ms) ==
    LET Event(frame, gold_intent, e2e_ms) ==
            [ update |-> update,
              render_frame |-> frame,
              gold_intent |-> gold_intent,
              intent_correct |->
                  IF gold_intent = None THEN None
                  ELSE Some(gold_intent[1] = JsonString(update.intent_type)),
              render_latency_ms |-> render_ms,
              e2e_latency_ms |-> e2e_ms ]
        Record(ar, event) ==
            [s EXCEPT !.renderer = ar.renderer,
                      !.events = Append(@, event),
                      !.e2e_latencies = Append(@, event.e2e_latency_ms),
                      !.update_latencies = Append(@, update.processing_latency_ms),
                      !.render_latencies = Append(@, render_ms)]
        Labelled(ar, gold) ==
            IF gold.raised
            THEN [raised |-> TRUE, session |-> [s EXCEPT !.renderer = ar.renderer]]
            ELSE [raised |-> FALSE,
                  session |-> Record(ar, Event(ar.frame, gold.value,
                                               update.processing_latency_ms + render_ms))]
        Rendered(ar) ==
            Labelled(ar, majority_label_in_range(s.labeled_chunks, update.start_ms,
                                                 update.end_ms))
    IN  Rendered(apply_update(s.renderer, update.update_id, update.operations,
                              update.intent_type))

\* SessionState._consume_updates: the session afterwards and whether the loop raised;
\* render_t0 and render_t1 are the wall clock reads around apply_update
RECURSIVE consume_updates(_, _, _, _)
consume_updates(s, updates, render_t0, render_t1) ==
    IF updates = <<>> THEN [raised |-> FALSE, session |-> s]
    ELSE Then(consume_update(s, Head(updates), render_t1 - render_t0),
              LAMBDA turn :
                  IF turn.raised THEN turn
                  ELSE consume_updates(turn.session, Tail(updates), render_t0, render_t1))

\* SessionState.ingest_chunk up to and including engine.ingest: the session afterwards
\* and the updates handed to _consume_updates
session_ingest(s, chunk, expected_intent, arrive_ms, now_ms) ==
    LET Ingested(res) ==
            [ session |->
                [s EXCEPT !.first_ts = IF @ = None THEN Some(chunk.timestamp_ms) ELSE @,
                          !.last_ts = Some(chunk.timestamp_ms),
                          !.chunk_count = @ + 1,
                          !.labeled_chunks =
                              Append(@, <<chunk.timestamp_ms, expected_intent>>),
                          !.engine = res.engine],
              updates |-> res.updates ]
    IN  Ingested(engine_ingest(s.engine, chunk, arrive_ms, now_ms))

\* SessionState.flush up to and including engine.flush
session_flush(s, now_ms) ==
    LET Flushed(res) == [session |-> [s EXCEPT !.engine = res.engine],
                         updates |-> res.updates]
    IN  Flushed(engine_flush(s.engine, now_ms))

\* StreamingIntentEngine.get_runtime_report
get_runtime_report(e) ==
    [ updates_emitted |-> e.update_id,
      current_wait_k |-> e.current_wait_k,
      intent_distribution |-> e.intent_counter,
      boundary_distribution |-> e.boundary_counter,
      latency_ms |-> stats(e.metrics.latency_ms),
      update_duration_ms |-> stats(e.metrics.update_duration_ms),
      tokens_per_update |-> stats(e.metrics.tokens_per_update) ]

\* IncrementalGraphRenderer.summary
renderer_summary(r) ==
    LET Column(F(_)) == stats([i \in 1..Len(r.frames) |-> F(r.frames[i])])
    IN  [ frame_count |-> Len(r.frames),
          node_count |-> Len(r.nodes),
          edge_count |-> Cardinality(r.edges),
          flicker_index |-> Column(LAMBDA f : f.flicker_index),
          mental_map_score |-> Column(LAMBDA f : f.mental_map_score),
          unchanged_max_drift |-> Column(LAMBDA f : f.unchanged_max_drift) ]

\* IncrementalGraphRenderer.export_state
export_state(r) == [nodes |-> r.nodes, edges |-> r.edges, frame_count |-> r.frame_id]

\* SessionState.pipeline_payload; now_ms is the wall clock read of runtime_ms
pipeline_payload(s, now_ms) ==
    LET Labeled(ev) == ev.gold_intent # None
        Correct(ev) ==
            ev.gold_intent # None /\ ev.gold_intent[1] = JsonString(ev.update.intent_type)
        Meta(runtime_ms, transcript_duration_ms) ==
            [ mode |-> "live_session",
              input_chunk_count |-> s.chunk_count,
              runtime_ms |-> runtime_ms,
              transcript_duration_ms |-> transcript_duration_ms,
              speedup_vs_realtime |->
                  IF runtime_ms > 0 /\ transcript_duration_ms > 0
                  THEN RoundDiv(transcript_duration_ms * 10000, runtime_ms) ELSE 0 ]
        Accuracy(labeled_eval_count, labeled_correct) ==
            IF labeled_eval_count > 0
            THEN Some(RoundDiv(labeled_correct * 10000, labeled_eval_count))
            ELSE None
        Payload(engine_report, labeled_eval_count) ==
            [ meta |->
                Meta(now_ms - s.created_wall_ms,
                     IF s.first_ts # None /\ s.last_ts # None
                     THEN Max2(0, s.last_ts[1] - s.first_ts[1]) ELSE 0),
              summary |->
                [ updates_emitted |-> Len(s.events),
                  latency_e2e_ms |-> stats(s.e2e_latencies),
                  latency_update_ms |-> stats(s.update_latencies),
                  latency_render_ms |-> stats(s.render_latencies),
                  intent_labeled_eval_count |-> labeled_eval_count,
                  intent_labeled_accuracy |->
                      Accuracy(labeled_eval_count, Len(SelectSeq(s.events, Correct))),
                  intent_runtime_distribution |-> engine_report.intent_distribution,
                  boundary_distribution |-> engine_report.boundary_distribution,
                  renderer_stability |-> renderer_summary(s.renderer) ],
              engine_report |-> engine_report,
              renderer_state |-> export_state(s.renderer),
              events |-> s.events ]
    IN  Payload(get_runtime_report(s.engine), Len(SelectSeq(s.events, Labeled)))

\* default thresholds of evaluate_payload, in 1/10000 (of a millisecond, of a score)
latency_p95_threshold_ms == 20000000
flicker_mean_threshold == 60000
mental_map_min == 8500
intent_acc_threshold == 8000

\* dict.get(key, default) on an Optional field
GetOr(field, default) == IF field = None THEN default ELSE field[1]

\* faulty variant of intent_accuracy_ok: a payload without labels fails the check
labels_required(intent_acc, threshold) ==
    intent_acc # None /\ intent_acc[1] >= threshold

\* "intent_accuracy_ok": True if intent_acc is None else (intent_acc >= threshold)
intent_accuracy_ok(intent_acc, threshold) ==
    IF intent_acc = None THEN TRUE ELSE intent_acc[1] >= threshold

\* evaluate_payload with the default thresholds: the checks and their conjunction;
\* the fields of the summary are Optional, a missing number counts as 0.0
evaluate_payload(summary) ==
    LET e2e_p95 == GetOr(summary.latency_e2e_p95, 0)
        flicker_mean == GetOr(summary.flicker_mean, 0)
        mental_mean == GetOr(summary.mental_map_mean, 0)
        Report(checks) ==
            [realtime_eval_pass |-> \A name \in DOMAIN checks : checks[name],
             checks |-> checks]
    IN  Report([latency_p95_ok |-> e2e_p95 <= latency_p95_threshold_ms,
                flicker_mean_ok |-> flicker_mean <= flicker_mean_threshold,
                mental_map_ok |-> mental_mean >= mental_map_min,
                intent_accuracy_ok |->
                    intent_accuracy_ok(summary.intent_labeled_accuracy,
                                       intent_acc_threshold)])

\* _evaluate_with_thresholds(pipeline, payload) for a request that names no threshold:
\* evaluate_payload reads the e2e p95 (in ms), the mean flicker (a mean of 1/100 px
\* values, in 1/10000 of them) and the mean mental map score (a mean of 1/10000
\* scores, in 1/10000 of them) from the summary, here brought to 1/10000
evaluate_with_thresholds(pipeline) ==
    LET renderer == pipeline.summary.renderer_stability
    IN  evaluate_payload(
            [latency_e2e_p95 |-> Some(pipeline.summary.latency_e2e_ms.p95 * 10000),
             flicker_mean |-> Some(RoundDiv(renderer.flicker_index.mean, 100)),
             mental_map_mean |-> Some(RoundDiv(renderer.mental_map_score.mean, 10000)),
             intent_labeled_accuracy |-> pipeline.summary.intent_labeled_accuracy])

(***************************************************************************)
(* Section 5.  The session surface of the HTTP server                       *)
(* (realtime_frontend_server.py, RealtimeUIHandler.do_GET / do_POST).       *)
(* Every request is served by its own thread (ThreadingHTTPServer); a       *)
(* thread is modelled by req[t], its position in the handler and its local  *)
(* variables.  A statement sequence that touches no shared state is part of *)
(* the step that follows it.                                                *)
(***************************************************************************)

VARIABLES
    SESSIONS,   \* the registry: session id -> index into heap, 0 when absent
    heap,       \* every SessionState object ever constructed, in creation order
    wall,       \* the last value read from the wall clock (time.time() in ms)
    req,        \* req[t]: the request thread t is serving
    resp,       \* resp[t]: the last response written by thread t
    budget,     \* how many requests of each kind the clients have sent
    workload,   \* what the clients send; fixed by the initial state
    snap_log,   \* per session object: the pipelines returned by snapshots since the
                \* last ingest or flush (observer of the responses)
    chunk_log   \* per session object: the chunks handed to ingest_chunk, in the order
                \* of the calls (observer of the requests)

vars == <<SESSIONS, heap, wall, req, resp, budget, workload, snap_log, chunk_log>>

\* bounds of the explored behaviours
MaxWall == 1
MaxChunks == 3
MaxRequests == 4
MaxRaceChunks == 2
MaxRaceRequests == 3
MaxFairChunks == 2
MaxFairRequests == 3
MaxWatchChunks == 2
MaxWatchRequests == 4
MaxDeskChunks == 2
MaxDeskRequests == 3
MaxGapChunks == 2
MaxGapRequests == 4
MaxChainChunks == 4
MaxChainRequests == 5
MaxTokens == 14
MaxHits == 3
MaxVocabulary == 5
MaxKeywords == 8
MaxUpdateId == 3

DefaultConfig == [min_wait_k |-> 1, base_wait_k |-> 2, max_wait_k |-> 4]
InvertedConfig == [min_wait_k |-> 3, base_wait_k |-> 2, max_wait_k |-> 1]
EagerConfig == [min_wait_k |-> 1, base_wait_k |-> 1, max_wait_k |-> 4]
TopHeavyConfig == [min_wait_k |-> 1, base_wait_k |-> 4, max_wait_k |-> 2]

TextHub == "gateway module connects to auth service and data service."
TextShort == "ok"
TextMarker == "Then filter output"
TextLong == "b c d e f g h i j k l m n o p q r s"
TextPayment == "the payment module handles refunds"
TextLedger == "the ledger service records transactions"
TextFirst == "first capture sensor data"
TextThen == "then normalize and filter"
TextNext == "next compute feature windows"
TextFinally == "finally write result."

\* bodies of /api/session/chunk requests: timestamp_ms and expected_intent are Optional
ChunkBodies ==
    [ hub_auto |-> [text |-> TextHub, timestamp_ms |-> None,
                    expected_intent |-> Some(JsonString("structural"))],
      hub_list |-> [text |-> TextHub, timestamp_ms |-> None,
                    expected_intent |-> Some(JsonArray(<<"structural">>))],
      hub_late |-> [text |-> TextHub, timestamp_ms |-> Some(2000), expected_intent |-> None],
      short_auto |-> [text |-> TextShort, timestamp_ms |-> None,
                      expected_intent |-> Some(JsonString("sequential"))],
      marker_far |-> [text |-> TextMarker, timestamp_ms |-> Some(4000),
                      expected_intent |-> None],
      long_zero |-> [text |-> TextLong, timestamp_ms |-> Some(0), expected_intent |-> None],
      blank |-> [text |-> "  ", timestamp_ms |-> None, expected_intent |-> None],
      payment_zero |-> [text |-> TextPayment, timestamp_ms |-> Some(0),
                        expected_intent |-> None],
      ledger_late |-> [text |-> TextLedger, timestamp_ms |-> Some(2000),
                       expected_intent |-> None],
      short_zero |-> [text |-> TextShort, timestamp_ms |-> Some(0),
                      expected_intent |-> None],
      short_far |-> [text |-> TextShort, timestamp_ms |-> Some(5000),
                     expected_intent |-> None],
      chain_first |-> [text |-> TextFirst, timestamp_ms |-> None, expected_intent |-> None],
      chain_then |-> [text |-> TextThen, timestamp_ms |-> Some(450),
                      expected_intent |-> None],
      chain_next |-> [text |-> TextNext, timestamp_ms |-> Some(900),
                      expected_intent |-> None],
      chain_finally |-> [text |-> TextFinally, timestamp_ms |-> Some(1400),
                         expected_intent |-> None] ]

\* session ids the server can generate (uuid.uuid4().hex[:12]) and ids a client can send
SessionIdSpace == {"s1", "s2"}
UnknownId == "none"

\* one client speaking into a session of the default configuration, one request after
\* the other
SerialWorkload ==
    [ clients |-> {1},
      bodies |-> {"hub_auto", "hub_list", "hub_late", "short_auto", "marker_far",
                  "long_zero"},
      configs |-> {DefaultConfig},
      uuids |-> {"s1"},
      ids |-> {"s1"},
      raw |-> {"json"},
      flags |-> {None, Some(JsonBool(FALSE))},
      ticks |-> {},
      limit |-> [create |-> 1, chunk |-> MaxChunks, flush |-> 2, snapshot |-> 0,
                 close |-> 0, list |-> 0],
      total |-> 1 + MaxRequests ]

\* one client that picks the configuration and watches the session through snapshots
\* while time passes
WatchWorkload ==
    [ clients |-> {1},
      bodies |-> {"hub_auto", "hub_late"},
      configs |-> {DefaultConfig, InvertedConfig, EagerConfig},
      uuids |-> {"s1"},
      ids |-> {"s1"},
      raw |-> {"json"},
      flags |-> {None, Some(JsonBool(FALSE))},
      ticks |-> {"payload"},
      limit |-> [create |-> 1, chunk |-> MaxWatchChunks, flush |-> 1, snapshot |-> 2,
                 close |-> 0, list |-> 0],
      total |-> 1 + MaxWatchRequests ]

\* two clients sending requests to the same session at the same time
RaceWorkload ==
    [ clients |-> {1, 2},
      bodies |-> {"hub_auto", "hub_late"},
      configs |-> {DefaultConfig},
      uuids |-> {"s1"},
      ids |-> {"s1"},
      raw |-> {"json"},
      flags |-> {None, Some(JsonBool(FALSE))},
      ticks |-> {},
      limit |-> [create |-> 1, chunk |-> MaxRaceChunks, flush |-> 1, snapshot |-> 1,
                 close |-> 1, list |-> 1],
      total |-> 1 + MaxRaceRequests ]

\* one client working on two sessions, with requests the server has to refuse: a body
\* that is not JSON, a body without session_id (""), a blank text, the id of no session
DeskWorkload ==
    [ clients |-> {1},
      bodies |-> {"hub_auto", "blank"},
      configs |-> {DefaultConfig},
      uuids |-> {"s1", "s2"},
      ids |-> {"s1", "s2", UnknownId, ""},
      raw |-> {"json", "text"},
      flags |-> {None, Some(JsonNull), Some(JsonBool(FALSE))},
      ticks |-> {},
      limit |-> [create |-> 2, chunk |-> MaxDeskChunks, flush |-> 1, snapshot |-> 1,
                 close |-> 1, list |-> 0],
      total |-> 2 + MaxDeskRequests ]

\* one client speaking two sentences with a silence between them
GapWorkload ==
    [ clients |-> {1},
      bodies |-> {"payment_zero", "ledger_late", "short_auto", "short_zero", "short_far"},
      configs |-> {DefaultConfig},
      uuids |-> {"s1"},
      ids |-> {"s1"},
      raw |-> {"json"},
      flags |-> {None, Some(JsonBool(FALSE))},
      ticks |-> {},
      limit |-> [create |-> 1, chunk |-> MaxGapChunks, flush |-> 2, snapshot |-> 0,
                 close |-> 0, list |-> 0],
      total |-> 1 + MaxGapRequests ]

\* one client dictating the steps of a procedure, the first chunk without a timestamp
ChainWorkload ==
    [ clients |-> {1},
      bodies |-> {"chain_first", "chain_then", "chain_next", "chain_finally"},
      configs |-> {DefaultConfig},
      uuids |-> {"s1"},
      ids |-> {"s1"},
      raw |-> {"json"},
      flags |-> {None},
      ticks |-> {},
      limit |-> [create |-> 1, chunk |-> MaxChainChunks, flush |-> 1, snapshot |-> 0,
                 close |-> 0, list |-> 0],
      total |-> 1 + MaxChainRequests ]

Threads == {1, 2}

IdleReq == [pc |-> "idle"]
NoResponse == [status |-> 0, kind |-> "none"]

RequestKinds == {"create", "chunk", "flush", "snapshot", "close", "list"}

TypeOK ==
    /\ wall \in 0..MaxWall
    /\ \A sid \in DOMAIN SESSIONS : SESSIONS[sid] \in 0..Len(heap)
    /\ \A t \in Threads : req[t].pc \in
          {"idle", "chunk_ts", "chunk_wait", "chunk_consume", "chunk_respond",
           "flush_wait", "flush_consume", "flush_close", "flush_respond",
           "snapshot_wait", "snapshot_respond"}
    /\ \A kind \in RequestKinds : budget[kind] \in 0..workload.limit[kind]

InitWith(w) ==
    /\ SESSIONS = [sid \in SessionIdSpace |-> 0]
    /\ heap = <<>>
    /\ wall = 0
    /\ req = [t \in Threads |-> IdleReq]
    /\ resp = [t \in Threads |-> NoResponse]
    /\ budget = [kind \in RequestKinds |-> 0]
    /\ workload = w
    /\ snap_log = <<>>
    /\ chunk_log = <<>>

Init == InitWith(RaceWorkload)
InitSerial == InitWith(SerialWorkload)
InitWatch == InitWith(WatchWorkload)
InitDesk == InitWith(DeskWorkload)
InitGap == InitWith(GapWorkload)
InitChain == InitWith(ChainWorkload)

\* a thread that may pick up a new request of the given kind
CanStart(t, kind) ==
    /\ t \in workload.clients
    /\ req[t].pc = "idle"
    /\ budget[kind] < workload.limit[kind]
    /\ budget.create + budget.chunk + budget.flush + budget.snapshot + budget.close
          + budget.list < workload.total

Spend(kind) == budget' = [budget EXCEPT ![kind] = @ + 1]

Respond(t, r) == resp' = [resp EXCEPT ![t] = r]

\* the wall clock (time.time(), in ms) is read at the named place of the code: the value
\* is not below the previous read, and time passes only before the reads the workload
\* names
ClockReads(site) == IF site \in workload.ticks THEN wall..MaxWall ELSE {wall}

\* _read_json_body: the payload of a request body, Some(fields) for a JSON object; a
\* body that is not JSON (raw = "text") gives the empty object {}, here None
read_json_body(raw, fields) == IF raw = "json" THEN Some(fields) ELSE None

\* EngineConfig(min_wait_k=int(payload.get("min_wait_k", 1)), ...) of create: the
\* defaults stand in for what the payload does not have
create_config(payload) == IF payload = None THEN DefaultConfig ELSE payload[1]

\* uuid.uuid4().hex[:12]: any id of the id space, whatever the registry holds
new_session_ids(registry) == workload.uuids

\* POST /api/session/create; the response is tagged with the kind of body it answers
Create(t) ==
    /\ CanStart(t, "create")
    /\ \E fields \in workload.configs, raw \in workload.raw,
          session_id \in new_session_ids(SESSIONS), now \in ClockReads("created") :
       \E config \in {create_config(read_json_body(raw, fields))} :
          /\ heap' = Append(heap, NewSession(session_id, config, now))
          /\ SESSIONS' = [SESSIONS EXCEPT ![session_id] = Len(heap) + 1]
          /\ snap_log' = Append(snap_log, <<>>)
          /\ chunk_log' = Append(chunk_log, <<>>)
          /\ wall' = now
          /\ Respond(t, [status |-> 200, kind |-> "create", session_id |-> session_id,
                         config |-> config, body |-> raw])
    /\ Spend("create")
    /\ UNCHANGED <<req, workload>>

\* SESSIONS.get(session_id) under SESSION_LOCK, 0 for None
Lookup(session_id) == IF session_id \in DOMAIN SESSIONS THEN SESSIONS[session_id] ELSE 0

BadRequest(kind, error) == [status |-> 400, kind |-> kind, error |-> error]
NotFound(kind) == [status |-> 404, kind |-> kind, error |-> "session not found"]

\* an exception leaves do_POST: the server logs it and closes the connection, no
\* response is written
NoReply(kind, error) == [status |-> 0, kind |-> kind, error |-> error]

Obj(t) == heap[req[t].obj]

\* POST /api/session/chunk: validation and the registry lookup
ChunkLookup(t) ==
    /\ CanStart(t, "chunk")
    /\ \E b \in workload.bodies, session_id \in workload.ids :
          LET body == ChunkBodies[b]
              text == Strip(body.text)
              sess == Lookup(session_id)
          IN  IF session_id = ""
              THEN Respond(t, BadRequest("chunk", "session_id required")) /\ UNCHANGED req
              ELSE IF text = ""
              THEN Respond(t, BadRequest("chunk", "text required")) /\ UNCHANGED req
              ELSE IF sess = 0
              THEN Respond(t, NotFound("chunk")) /\ UNCHANGED req
              ELSE /\ req' = [req EXCEPT ![t] =
                          [pc |-> IF body.timestamp_ms = None THEN "chunk_ts"
                                  ELSE "chunk_wait",
                           kind |-> "chunk", session_id |-> session_id, obj |-> sess,
                           text |-> text, timestamp_ms |-> body.timestamp_ms,
                           expected_intent |-> body.expected_intent,
                           auto |-> body.timestamp_ms = None]]
                   /\ UNCHANGED resp
    /\ Spend("chunk")
    /\ UNCHANGED <<SESSIONS, heap, wall, workload, snap_log, chunk_log>>

\* the default timestamp: sess.last_ts is read without the session lock
ChunkTimestamp(t) ==
    /\ req[t].pc = "chunk_ts"
    /\ req' = [req EXCEPT ![t].timestamp_ms =
                  IF Obj(t).last_ts = None THEN Some(0) ELSE Some(Obj(t).last_ts[1] + 450),
                          ![t].pc = "chunk_wait"]
    /\ UNCHANGED <<SESSIONS, heap, wall, resp, budget, workload, snap_log, chunk_log>>

\* with sess.lock: sess.ingest_chunk(...) down to engine.ingest
ChunkIngest(t) ==
    /\ req[t].pc = "chunk_wait"
    /\ Obj(t).lock = 0
    /\ \E arrive_ms \in ClockReads("arrive"), now_ms \in ClockReads("dispatch") :
          \E res \in {session_ingest(Obj(t), [timestamp_ms |-> req[t].timestamp_ms[1],
                                               text |-> req[t].text],
                                      req[t].expected_intent, arrive_ms, now_ms)} :
              /\ arrive_ms <= now_ms
              /\ (res.updates = <<>>) => (now_ms = arrive_ms)
              /\ heap' = [heap EXCEPT ![req[t].obj] = [res.session EXCEPT !.lock = t]]
              /\ req' = [req EXCEPT ![t] =
                            [pc |-> "chunk_consume", kind |-> "chunk",
                             session_id |-> req[t].session_id, obj |-> req[t].obj,
                             updates |-> res.updates]]
              /\ wall' = now_ms
    /\ snap_log' = [snap_log EXCEPT ![req[t].obj] = <<>>]
    /\ chunk_log' = [chunk_log EXCEPT ![req[t].obj] =
                        Append(@, [timestamp_ms |-> req[t].timestamp_ms[1],
                                   text |-> req[t].text,
                                   expected_intent |-> req[t].expected_intent,
                                   auto |-> req[t].auto])]
    /\ UNCHANGED <<SESSIONS, resp, budget, workload>>

\* the events appended to a session by one _consume_updates call
Emitted(before, after) == SubSeq(after.events, Len(before.events) + 1, Len(after.events))

\* pipeline_payload hands out self.events itself, not a copy: the events of a
\* response are read when the response is serialised
Serialise(pipeline, sess) == [pipeline EXCEPT !.events = sess.events]

\* still with sess.lock: _consume_updates, pipeline_payload, then the lock is released;
\* an exception raised inside the "with" block releases the lock as well
ChunkConsume(t) ==
    /\ req[t].pc = "chunk_consume"
    /\ \E render_t0 \in ClockReads("render"), render_t1 \in ClockReads("render") :
          \E done \in {consume_updates(Obj(t), req[t].updates, render_t0, render_t1)} :
          \E now_ms \in ClockReads("payload") :
          \E summary \in {pipeline_payload(done.session, now_ms)} :
              /\ render_t0 <= render_t1 /\ render_t1 <= now_ms
              /\ (req[t].updates = <<>>) => (render_t0 = wall /\ render_t1 = wall)
              /\ heap' = [heap EXCEPT ![req[t].obj] = [done.session EXCEPT !.lock = 0]]
              /\ IF done.raised
                 THEN /\ now_ms = render_t1
                      /\ req' = [req EXCEPT ![t] = IdleReq]
                      /\ Respond(t, NoReply("chunk", "TypeError"))
                 ELSE /\ req' = [req EXCEPT ![t] =
                                    [pc |-> "chunk_respond", kind |-> "chunk",
                                     session_id |-> req[t].session_id, obj |-> req[t].obj,
                                     emitted |-> Emitted(Obj(t), done.session),
                                     summary |-> summary]]
                      /\ UNCHANGED resp
              /\ wall' = now_ms
    /\ UNCHANGED <<SESSIONS, budget, workload, snap_log, chunk_log>>

\* _json_response of /api/session/chunk
ChunkRespond(t) ==
    /\ req[t].pc = "chunk_respond"
    /\ Respond(t, [status |-> 200, kind |-> "chunk", session_id |-> req[t].session_id,
                   emitted_events |-> req[t].emitted,
                   session_summary |-> req[t].summary.summary,
                   events_total |-> Len(Serialise(req[t].summary, Obj(t)).events)])
    /\ req' = [req EXCEPT ![t] = IdleReq]
    /\ UNCHANGED <<SESSIONS, heap, wall, budget, workload, snap_log, chunk_log>>

\* POST /api/session/flush: validation and the registry lookup
FlushLookup(t) ==
    /\ CanStart(t, "flush")
    /\ \E session_id \in workload.ids, close_after_flush \in workload.flags :
          LET sess == Lookup(session_id)
          IN  IF session_id = ""
              THEN Respond(t, BadRequest("flush", "session_id required")) /\ UNCHANGED req
              ELSE IF sess = 0
              THEN Respond(t, NotFound("flush")) /\ UNCHANGED req
              ELSE /\ req' = [req EXCEPT ![t] =
                          [pc |-> "flush_wait", kind |-> "flush",
                           session_id |-> session_id, obj |-> sess,
                           close_after_flush |-> close_after_flush]]
                   /\ UNCHANGED resp
    /\ Spend("flush")
    /\ UNCHANGED <<SESSIONS, heap, wall, workload, snap_log, chunk_log>>

\* with sess.lock: sess.flush() down to engine.flush
FlushRun(t) ==
    /\ req[t].pc = "flush_wait"
    /\ Obj(t).lock = 0
    /\ \E now_ms \in ClockReads("dispatch") :
          \E res \in {session_flush(Obj(t), now_ms)} :
              /\ (res.updates = <<>>) => (now_ms = wall)
              /\ heap' = [heap EXCEPT ![req[t].obj] = [res.session EXCEPT !.lock = t]]
              /\ req' = [req EXCEPT ![t] =
                            [pc |-> "flush_consume", kind |-> "flush",
                             session_id |-> req[t].session_id, obj |-> req[t].obj,
                             close_after_flush |-> req[t].close_after_flush,
                             updates |-> res.updates]]
              /\ wall' = now_ms
    /\ snap_log' = [snap_log EXCEPT ![req[t].obj] = <<>>]
    /\ UNCHANGED <<SESSIONS, resp, budget, workload, chunk_log>>

\* still with sess.lock: _consume_updates, pipeline_payload, then the lock is released
FlushConsume(t) ==
    /\ req[t].pc = "flush_consume"
    /\ \E render_t0 \in ClockReads("render"), render_t1 \in ClockReads("render") :
          \E done \in {consume_updates(Obj(t), req[t].updates, render_t0, render_t1)} :
          \E now_ms \in ClockReads("payload") :
          \E pipeline \in {pipeline_payload(done.session, now_ms)} :
              /\ render_t0 <= render_t1 /\ render_t1 <= now_ms
              /\ (req[t].updates = <<>>) => (render_t0 = wall /\ render_t1 = wall)
              /\ heap' = [heap EXCEPT ![req[t].obj] = [done.session EXCEPT !.lock = 0]]
              /\ IF done.raised
                 THEN /\ now_ms = render_t1
                      /\ req' = [req EXCEPT ![t] = IdleReq]
                      /\ Respond(t, NoReply("flush", "TypeError"))
                 ELSE /\ req' = [req EXCEPT ![t] =
                                    [pc |-> IF close_after_flush_of(req[t].close_after_flush)
                                            THEN "flush_close"
                                            ELSE "flush_respond",
                                     kind |-> "flush",
                                     session_id |-> req[t].session_id, obj |-> req[t].obj,
                                     close_after_flush |-> req[t].close_after_flush,
                                     emitted |-> Emitted(Obj(t), done.session),
                                     pipeline |-> pipeline,
                                     evaluation |-> evaluate_with_thresholds(pipeline)]]
                      /\ UNCHANGED resp
              /\ wall' = now_ms
    /\ UNCHANGED <<SESSIONS, budget, workload, snap_log, chunk_log>>

\* SESSIONS.pop(session_id, None) under SESSION_LOCK
FlushClose(t) ==
    /\ req[t].pc = "flush_close"
    /\ SESSIONS' = [SESSIONS EXCEPT ![req[t].session_id] = 0]
    /\ req' = [req EXCEPT ![t].pc = "flush_respond"]
    /\ UNCHANGED <<heap, wall, resp, budget, workload, snap_log, chunk_log>>

\* _json_response of /api/session/flush
FlushRespond(t) ==
    /\ req[t].pc = "flush_respond"
    /\ Respond(t, [status |-> 200, kind |-> "flush", session_id |-> req[t].session_id,
                   emitted_events |-> req[t].emitted,
                   pipeline |-> Serialise(req[t].pipeline, Obj(t)),
                   evaluation |-> req[t].evaluation,
                   closed |-> close_after_flush_of(req[t].close_after_flush)])
    /\ req' = [req EXCEPT ![t] = IdleReq]
    /\ UNCHANGED <<SESSIONS, heap, wall, budget, workload, snap_log, chunk_log>>

\* POST /api/session/snapshot: validation and the registry lookup
SnapshotLookup(t) ==
    /\ CanStart(t, "snapshot")
    /\ \E session_id \in workload.ids :
          LET sess == Lookup(session_id)
          IN  IF session_id = ""
              THEN Respond(t, BadRequest("snapshot", "session_id required"))
                   /\ UNCHANGED req
              ELSE IF sess = 0
              THEN Respond(t, NotFound("snapshot")) /\ UNCHANGED req
              ELSE /\ req' = [req EXCEPT ![t] =
                          [pc |-> "snapshot_wait", kind |-> "snapshot",
                           session_id |-> session_id, obj |-> sess]]
                   /\ UNCHANGED resp
    /\ Spend("snapshot")
    /\ UNCHANGED <<SESSIONS, heap, wall, workload, snap_log, chunk_log>>

\* sorted(list(chunks), key=lambda x: x.timestamp_ms) of ASRStreamAdapter.__init__: a
\* stable sort, every chunk at the place its rank gives it
sort_by_timestamp(chunks) ==
    LET Before(i, j) ==
            \/ chunks[i].timestamp_ms < chunks[j].timestamp_ms
            \/ chunks[i].timestamp_ms = chunks[j].timestamp_ms /\ i < j
        Place(ranked) ==
            [k \in 1..Len(chunks) |-> chunks[(CHOOSE p \in ranked : p[1] = k - 1)[2]]]
    IN  Place({<<Cardinality({i \in 1..Len(chunks) : Before(i, j)}), j>> :
                  j \in 1..Len(chunks)})

\* the loop "for asr_chunk in adapter.stream(...)" of run_realtime_pipeline from chunk k
\* on, followed by engine.flush(): the updates handed to consume_update, in order. The
\* wall clock reads only enter processing_latency_ms and are taken as 0
RECURSIVE replay_from(_, _, _, _)
replay_from(e, chunks, k, updates) ==
    IF k > Len(chunks)
    THEN updates \o engine_flush(e, 0).updates
    ELSE Then(engine_ingest(e, [timestamp_ms |-> chunks[k].timestamp_ms,
                                text |-> chunks[k].text], 0, 0),
              LAMBDA res : replay_from(res.engine, chunks, k + 1, updates \o res.updates))

\* run_realtime_pipeline with realtime = False and max_chunks = 0: the updates of its
\* events
run_realtime_pipeline(chunks, config) ==
    replay_from(NewEngine(config), sort_by_timestamp(chunks), 1, <<>>)

\* faulty variant of snapshot_session: taking the snapshot counts as a chunk
snapshot_counting(s, now_ms) ==
    [session |-> [s EXCEPT !.chunk_count = @ + 1], pipeline |-> pipeline_payload(s, now_ms)]

\* the body of "with sess.lock" of /api/session/snapshot: the session afterwards and
\* the pipeline
snapshot_session(s, now_ms) == [session |-> s, pipeline |-> pipeline_payload(s, now_ms)]

\* with sess.lock: pipeline_payload; the lock is taken and released in this step
SnapshotRun(t) ==
    /\ req[t].pc = "snapshot_wait"
    /\ Obj(t).lock = 0
    /\ \E now_ms \in ClockReads("payload") :
          \E res \in {snapshot_session(Obj(t), now_ms)} :
              /\ heap' = [heap EXCEPT ![req[t].obj] = res.session]
              /\ req' = [req EXCEPT ![t] =
                            [pc |-> "snapshot_respond", kind |-> "snapshot",
                             session_id |-> req[t].session_id, obj |-> req[t].obj,
                             pipeline |-> res.pipeline,
                             evaluation |-> evaluate_with_thresholds(res.pipeline)]]
              /\ wall' = now_ms
    /\ UNCHANGED <<SESSIONS, resp, budget, workload, snap_log, chunk_log>>

\* _json_response of /api/session/snapshot
SnapshotRespond(t) ==
    /\ req[t].pc = "snapshot_respond"
    /\ LET pipeline == Serialise(req[t].pipeline, Obj(t))
       IN  /\ Respond(t, [status |-> 200, kind |-> "snapshot",
                          session_id |-> req[t].session_id, pipeline |-> pipeline,
                          evaluation |-> req[t].evaluation])
           /\ snap_log' = [snap_log EXCEPT ![req[t].obj] = Append(@, pipeline)]
    /\ req' = [req EXCEPT ![t] = IdleReq]
    /\ UNCHANGED <<SESSIONS, heap, wall, budget, workload, chunk_log>>

\* POST /api/session/close
Close(t) ==
    /\ CanStart(t, "close")
    /\ \E session_id \in workload.ids :
          IF session_id = ""
          THEN Respond(t, BadRequest("close", "session_id required")) /\ UNCHANGED SESSIONS
          ELSE /\ Respond(t, [status |-> 200, kind |-> "close", session_id |-> session_id,
                              closed |-> Lookup(session_id) # 0])
               /\ SESSIONS' = [sid \in DOMAIN SESSIONS |->
                                  IF sid = session_id THEN 0 ELSE SESSIONS[sid]]
    /\ Spend("close")
    /\ UNCHANGED <<heap, wall, req, workload, snap_log, chunk_log>>

\* GET /api/session/list: chunk_count and len(events) are read under SESSION_LOCK only
List(t) ==
    /\ CanStart(t, "list")
    /\ Respond(t, [status |-> 200, kind |-> "list",
                   sessions |-> {[session_id |-> sid,
                                  chunk_count |-> heap[SESSIONS[sid]].chunk_count,
                                  updates_emitted |-> Len(heap[SESSIONS[sid]].events)] :
                                 sid \in {x \in DOMAIN SESSIONS : SESSIONS[x] # 0}}])
    /\ Spend("list")
    /\ UNCHANGED <<SESSIONS, heap, wall, req, workload, snap_log, chunk_log>>

Next ==
    \E t \in Threads :
        \/ Create(t)
        \/ ChunkLookup(t)
        \/ ChunkTimestamp(t)
        \/ ChunkIngest(t)
        \/ ChunkConsume(t)
        \/ ChunkRespond(t)
        \/ FlushLookup(t)
        \/ FlushRun(t)
        \/ FlushConsume(t)
        \/ FlushClose(t)
        \/ FlushRespond(t)
        \/ SnapshotLookup(t)
        \/ SnapshotRun(t)
        \/ SnapshotRespond(t)
        \/ Close(t)
        \/ List(t)

Spec == Init /\ [][Next]_vars

\* the requests of the serial workload
NextSerial ==
    \E t \in Threads :
        \/ Create(t)
        \/ ChunkLookup(t)
        \/ ChunkTimestamp(t)
        \/ ChunkIngest(t)
        \/ ChunkConsume(t)
        \/ ChunkRespond(t)
        \/ FlushLookup(t)
        \/ FlushRun(t)
        \/ FlushConsume(t)
        \/ FlushClose(t)
        \/ FlushRespond(t)

SpecSerial == InitSerial /\ [][NextSerial]_vars

\* the same requests under the workload of the two sentences
SpecGap == InitGap /\ [][NextSerial]_vars

\* the same requests under the workload of the procedure
SpecChain == InitChain /\ [][NextSerial]_vars

\* two concurrent clients on one session, some of whose chunks carry a list as
\* expected_intent
FairWorkload ==
    [ clients |-> {1, 2},
      bodies |-> {"hub_auto", "hub_list"},
      configs |-> {DefaultConfig},
      uuids |-> {"s1"},
      ids |-> {"s1"},
      raw |-> {"json"},
      flags |-> {None, Some(JsonBool(FALSE))},
      ticks |-> {},
      limit |-> [create |-> 1, chunk |-> MaxFairChunks, flush |-> 1, snapshot |-> 1,
                 close |-> 1, list |-> 1],
      total |-> 1 + MaxFairRequests ]

InitFair == InitWith(FairWorkload)

\* the steps of a request thread after the handler has begun: the thread of a
\* ThreadingHTTPServer request runs on whenever it is not waiting for a lock
Continue(t) ==
    \/ ChunkTimestamp(t)
    \/ ChunkIngest(t)
    \/ ChunkConsume(t)
    \/ ChunkRespond(t)
    \/ FlushRun(t)
    \/ FlushConsume(t)
    \/ FlushClose(t)
    \/ FlushRespond(t)
    \/ SnapshotRun(t)
    \/ SnapshotRespond(t)

\* thread t can take its next step: it is inside a handler and is not waiting for a
\* session lock that another thread holds.  This is ENABLED <<Continue(t)>>_vars
\* written out: past its guard every step of Continue(t) has an outcome
Runnable(t) ==
    \/ req[t].pc \in {"chunk_ts", "chunk_consume", "chunk_respond", "flush_consume",
                      "flush_close", "flush_respond", "snapshot_respond"}
    \/ req[t].pc \in {"chunk_wait", "flush_wait", "snapshot_wait"} /\ Obj(t).lock = 0

\* weak fairness of the steps of thread t, WF_vars(Continue(t)), with its ENABLED
\* written as Runnable(t)
WeakFair(t) == []<>(~Runnable(t)) \/ []<><<Continue(t)>>_vars

\* the server under a scheduler that lets every runnable request thread run
SpecFair == InitFair /\ [][Next]_vars /\ \A t \in Threads : WeakFair(t)

\* no server request is made while a function is called on its own
NoWorkload ==
    [ clients |-> {}, bodies |-> {}, configs |-> {}, uuids |-> {}, ids |-> {},
      raw |-> {}, flags |-> {}, ticks |-> {},
      limit |-> [kind \in RequestKinds |-> 0], total |-> 0 ]

\* the state in which thread 1 is about to make the call
Calling(call) ==
    /\ SESSIONS = [sid \in SessionIdSpace |-> 0]
    /\ heap = <<>>
    /\ wall = 0
    /\ req = [t \in Threads |-> IF t = 1 THEN call ELSE IdleReq]
    /\ resp = [t \in Threads |-> NoResponse]
    /\ budget = [kind \in RequestKinds |-> 0]
    /\ workload = NoWorkload
    /\ snap_log = <<>>
    /\ chunk_log = <<>>

\* the call of thread t returns the value result
Returns(t, result) ==
    /\ resp' = [resp EXCEPT ![t] = result]
    /\ req' = [req EXCEPT ![t] = IdleReq]
    /\ UNCHANGED <<SESSIONS, heap, wall, budget, workload, snap_log, chunk_log>>

\* the keyword hits of a text: up to MaxHits intents of the keyword index, in order
HitLists == UNION {[1..k -> DOMAIN INTENT_KEYWORDS] : k \in 0..MaxHits}

\* classify on any text of up to MaxTokens tokens with up to MaxHits keyword hits (a
\* CJK keyword found in the raw text is a hit without being a token)
InitClassify ==
    \E n \in 0..MaxTokens, hits \in HitLists :
        Calling([pc |-> "classify", tokens |-> n, hits |-> hits])

ClassifyCall(t) ==
    /\ req[t].pc = "classify"
    /\ \E res \in {classify_hits(req[t].tokens, req[t].hits)} :
          Returns(t, [status |-> 0, kind |-> "classify", tokens |-> req[t].tokens,
                      hits |-> req[t].hits, intent |-> res.intent,
                      confidence |-> res.confidence])

NextClassify == \E t \in Threads : ClassifyCall(t)

SpecClassify == InitClassify /\ [][NextClassify]_vars

\* a number at the threshold, one step on either side of it, and the missing number
Around(threshold) == {None, Some(threshold - 1), Some(threshold), Some(threshold + 1)}

InitEvaluate ==
    \E p95 \in Around(latency_p95_threshold_ms), flicker \in Around(flicker_mean_threshold),
       mental \in Around(mental_map_min), acc \in Around(intent_acc_threshold) :
        Calling([pc |-> "evaluate",
                 summary |-> [latency_e2e_p95 |-> p95, flicker_mean |-> flicker,
                              mental_map_mean |-> mental,
                              intent_labeled_accuracy |-> acc]])

EvaluateCall(t) ==
    /\ req[t].pc = "evaluate"
    /\ \E res \in {evaluate_payload(req[t].summary)} :
          Returns(t, [status |-> 0, kind |-> "evaluate", summary |-> req[t].summary,
                      realtime_eval_pass |-> res.realtime_eval_pass,
                      checks |-> res.checks])

NextEvaluate == \E t \in Threads : EvaluateCall(t)

SpecEvaluate == InitEvaluate /\ [][NextEvaluate]_vars

\* the keyword lists over a vocabulary of MaxVocabulary words, each word at most once,
\* in the order of the vocabulary
Vocabulary == SubSeq(<<"api", "cache", "data", "queue", "shard", "token", "user">>,
                     1, MaxVocabulary)
KeywordLists ==
    {SelectSeq(Vocabulary, LAMBDA w : w \in chosen) : chosen \in SUBSET SeqToSet(Vocabulary)}

\* confidences on both sides of the two thresholds of _update_wait_k, in 1/10000
Confidences == {3500, 5199, 5200, 7799, 7800, 9600}

\* the wait-k controller after a dispatch: any configuration of the workloads, any
\* confidence, any keywords of the previous and of the new update
InitWaitK ==
    \E config \in {DefaultConfig, InvertedConfig}, confidence \in Confidences,
       last_keywords \in KeywordLists, keywords \in KeywordLists :
        Calling([pc |-> "wait_k", config |-> config, confidence |-> confidence,
                 last_keywords |-> last_keywords, keywords |-> keywords])

\* novelty = self._semantic_novelty(keywords); self._update_wait_k(intent_conf, novelty)
\* of _dispatch: the controller state afterwards
WaitKCall(t) ==
    /\ req[t].pc = "wait_k"
    /\ \E novelty \in {semantic_novelty(req[t].last_keywords, req[t].keywords)} :
          Returns(t, [status |-> 0, kind |-> "wait_k", called |-> req[t],
                      current_wait_k |->
                          update_wait_k(req[t].config, req[t].confidence, novelty),
                      last_keywords |-> req[t].keywords])

NextWaitK == \E t \in Threads : WaitKCall(t)

SpecWaitK == InitWaitK /\ [][NextWaitK]_vars

\* the keyword lists of 0 to MaxKeywords distinct keywords
KeywordPool ==
    <<"gateway", "module", "auth", "service", "data", "ledger", "payment", "sensor",
      "filter", "result">>
KeywordPrefixes == {SubSeq(KeywordPool, 1, n) : n \in 0..MaxKeywords}

\* _build_incremental_ops for any of the first update ids, any keywords, any intent
InitOps ==
    \E update_id \in 1..MaxUpdateId, keywords \in KeywordPrefixes,
       intent_type \in IntentTypes :
        Calling([pc |-> "ops", update_id |-> update_id, keywords |-> keywords,
                 intent_type |-> intent_type])

OpsCall(t) ==
    /\ req[t].pc = "ops"
    /\ Returns(t, [status |-> 0, kind |-> "ops", called |-> req[t],
                   operations |-> build_incremental_ops(req[t].update_id,
                                                        req[t].keywords,
                                                        req[t].intent_type)])

NextOps == \E t \in Threads : OpsCall(t)

SpecOps == InitOps /\ [][NextOps]_vars

\* the engine driven directly, as run_streaming_intent_engine drives it: an engine is
\* built, fed one chunk after the other, then flushed. The chunks are any chunks: the
\* text may be empty or blank and the timestamps need not grow.
MaxFeed == 3
EngineTexts == {"", "  ", TextShort, TextHub, TextMarker}
EngineTimestamps == {0, 450, 4000}

\* engine = StreamingIntentEngine(config=config); updates = []
InitEngine ==
    \E config \in {DefaultConfig, EagerConfig, InvertedConfig, TopHeavyConfig} :
        Calling([pc |-> "engine_loop", engine |-> NewEngine(config), updates |-> <<>>,
                 fed |-> <<>>, emitted |-> <<>>])

\* one turn of "for ck in chunks: updates.extend(engine.ingest(ck))"; fed and emitted
\* keep the chunks given so far and the updates of this turn
EngineFeed(t) ==
    /\ req[t].pc = "engine_loop"
    /\ Len(req[t].fed) < MaxFeed
    /\ \E text \in EngineTexts, timestamp_ms \in EngineTimestamps :
          \E ck \in {[timestamp_ms |-> timestamp_ms, text |-> text]} :
          \E res \in {engine_ingest(req[t].engine, ck, wall, wall)} :
              req' = [req EXCEPT ![t].engine = res.engine,
                                 ![t].updates = @ \o res.updates,
                                 ![t].fed = Append(@, ck),
                                 ![t].emitted = res.updates]
    /\ UNCHANGED <<SESSIONS, heap, wall, resp, budget, workload, snap_log, chunk_log>>

\* updates.extend(engine.flush()); report = engine.get_runtime_report(); return
EngineFinish(t) ==
    /\ req[t].pc = "engine_loop"
    /\ \E res \in {engine_flush(req[t].engine, wall)} :
          Returns(t, [status |-> 0, kind |-> "engine", fed |-> req[t].fed,
                      engine |-> res.engine,
                      updates |-> req[t].updates \o res.updates,
                      report |-> get_runtime_report(res.engine)])

NextEngine == \E t \in Threads : EngineFeed(t) \/ EngineFinish(t)

SpecEngine == InitEngine /\ [][NextEngine]_vars

\* the requests of the watching workload
NextWatch ==
    \E t \in Threads :
        \/ Create(t)
        \/ ChunkLookup(t)
        \/ ChunkTimestamp(t)
        \/ ChunkIngest(t)
        \/ ChunkConsume(t)
        \/ ChunkRespond(t)
        \/ FlushLookup(t)
        \/ FlushRun(t)
        \/ FlushConsume(t)
        \/ FlushClose(t)
        \/ FlushRespond(t)
        \/ SnapshotLookup(t)
        \/ SnapshotRun(t)
        \/ SnapshotRespond(t)

SpecWatch == InitWatch /\ [][NextWatch]_vars

\* the requests of the desk workload
NextDesk ==
    \E t \in Threads :
        \/ Create(t)
        \/ ChunkLookup(t)
        \/ ChunkTimestamp(t)
        \/ ChunkIngest(t)
        \/ ChunkConsume(t)
        \/ ChunkRespond(t)
        \/ FlushLookup(t)
        \/ FlushRun(t)
        \/ FlushConsume(t)
        \/ FlushClose(t)
        \/ FlushRespond(t)
        \/ SnapshotLookup(t)
        \/ SnapshotRun(t)
        \/ SnapshotRespond(t)
        \/ Close(t)

SpecDesk == InitDesk /\ [][NextDesk]_vars

(***************************************************************************)
(* Section 6.  Properties                                                   *)
(***************************************************************************)

\* the step of thread t that runs engine.ingest under the session lock
IngestStep(t) == req[t].pc = "chunk_wait" /\ req'[t].pc = "chunk_consume"

\* the step of thread t that runs engine.flush under the session lock
FlushStep(t) == req[t].pc = "flush_wait" /\ req'[t].pc = "flush_consume"

\* the updates a thread holds between the engine call and _consume_updates
InFlight(t) ==
    IF req[t].pc \in {"chunk_consume", "flush_consume"} THEN req[t].updates ELSE <<>>

\* every update of session object i that is recorded in an event or is in flight
UpdatesOf(i) ==
    {heap[i].events[k].update : k \in 1..Len(heap[i].events)}
        \cup UNION {SeqToSet(InFlight(t)) : t \in {u \in Threads : req[u].pc # "idle"
                                                        /\ req[u].obj = i}}

SoftReasons == {"sentence_end", "discourse_marker", "token_budget"}

\* gap_ms of engine.ingest for a chunk with the given timestamp
GapMs(e, timestamp_ms) ==
    IF e.last_chunk_ts = None THEN 0 ELSE Max2(0, timestamp_ms - e.last_chunk_ts[1])

\* C1: in every session each dispatch emits an update whose update_id is the previous
\* one plus 1, the first being 1, also when chunk and flush requests of the same
\* session are served concurrently: the ids in emission order are 1, 2, ..., n.
C1_UpdateIdsDense ==
    [][/\ \A i \in 1..Len(heap) :
             \/ heap'[i].engine.update_id = heap[i].engine.update_id
             \/ /\ heap'[i].engine.update_id = heap[i].engine.update_id + 1
                /\ \E t \in Threads :
                      /\ req'[t].pc \in {"chunk_consume", "flush_consume"}
                      /\ req'[t].obj = i
                      /\ Len(req'[t].updates) = 1
                      /\ req'[t].updates[1].update_id = heap'[i].engine.update_id
       /\ \A i \in (Len(heap) + 1)..Len(heap') : heap'[i].engine.update_id = 0
       /\ \A t \in Threads :
             (IngestStep(t) \/ FlushStep(t)) =>
                 /\ Len(req'[t].updates) <= 1
                 /\ heap'[req[t].obj].engine.update_id
                       = heap[req[t].obj].engine.update_id + Len(req'[t].updates)]_vars

\* C1 witness: the second update of a session is in flight in a chunk request while the
\* flush request of the other thread, which emitted the first update and overlapped
\* with it on the same session, has not responded yet
C1_Witness ==
    \E t \in Threads, u \in Threads :
        /\ t # u
        /\ req[t].pc = "chunk_consume"
        /\ req[t].updates # <<>>
        /\ req[t].updates[1].update_id = 2
        /\ req[u].pc = "flush_respond"
        /\ req[u].obj = req[t].obj
        /\ req[u].emitted # <<>>

\* C2: on every ingest, a soft reason (sentence_end, discourse_marker, token_budget)
\* dispatches only if the pending chunks, the new one included, are at least the
\* current_wait_k in force; a hard reason (silence_gap, max_window_ms) always dispatches;
\* when nothing is dispatched every chunk stays pending.
C2_WaitKGate ==
    [][\A t \in Threads :
          IngestStep(t) =>
              LET before == heap[req[t].obj].engine
                  after == heap'[req[t].obj].engine
                  ups == req'[t].updates
                  chunk == [timestamp_ms |-> req[t].timestamp_ms[1], text |-> req[t].text]
              IN  /\ (ups # <<>> /\ ups[1].boundary_reason \in SoftReasons) =>
                         /\ Len(before.pending) + 1 >= before.current_wait_k
                         /\ ups[1].chunk_count = Len(before.pending) + 1
                  /\ (ups = <<>>) =>
                         /\ after.pending = Append(before.pending, chunk)
                         /\ after.update_id = before.update_id
                         /\ should_dispatch_reason(
                                after, chunk, GapMs(before, chunk.timestamp_ms))
                              \notin {"silence_gap", "max_window_ms"}
                  /\ (ups # <<>>) => after.pending = <<>>]_vars

\* C2 witness: a silence_gap update is in flight that holds a single chunk although the
\* previous update had set current_wait_k to more than 1
C2_Witness ==
    \E t \in Threads :
        /\ req[t].pc = "chunk_consume"
        /\ req[t].updates # <<>>
        /\ req[t].updates[1].boundary_reason = "silence_gap"
        /\ req[t].updates[1].chunk_count = 1
        /\ req[t].updates[1].update_id = Len(Obj(t).events) + 1
        /\ Obj(t).events # <<>>
        /\ Obj(t).events[Len(Obj(t).events)].update.wait_k_used > 1

\* C3: whenever an ingest dispatches and a hard predicate holds for the pending segment
\* (gap >= silence_boundary_ms with tokens >= min_boundary_tokens, or window >=
\* max_window_ms), the update records that hard reason and no soft one.
C3_HardBeforeSoft ==
    [][\A t \in Threads :
          (IngestStep(t) /\ req'[t].updates # <<>>) =>
              LET before == heap[req[t].obj].engine
                  u == req'[t].updates[1]
                  ts == req[t].timestamp_ms[1]
                  tokens == before.pending_tokens + Len(tokenize(req[t].text))
                  silence == GapMs(before, ts) >= silence_boundary_ms
                                /\ tokens >= min_boundary_tokens
                  window == before.pending # <<>>
                                /\ ts - before.pending[1].timestamp_ms >= max_window_ms
              IN  /\ silence => u.boundary_reason = "silence_gap"
                  /\ (window /\ ~silence) => u.boundary_reason = "max_window_ms"]_vars

\* C3 witness: a silence_gap update is in flight whose latest chunk also ends a sentence
\* with enough tokens and enough pending chunks for sentence_end
C3_Witness ==
    \E t \in Threads :
        /\ req[t].pc = "chunk_consume"
        /\ req[t].updates # <<>>
        /\ req[t].updates[1].boundary_reason = "silence_gap"
        /\ req[t].updates[1].token_count >= min_boundary_tokens
        /\ req[t].updates[1].chunk_count >= 2
        /\ req[t].updates[1].update_id = 1
        /\ CharAt(req[t].updates[1].transcript_text,
                  Len(req[t].updates[1].transcript_text)) \in SentenceEndChars

\* C4: every update satisfies start_ms <= end_ms, duration_ms = end_ms - start_ms,
\* token_count >= 0 and chunk_count >= 1, whatever timestamps the client supplies.
C4_UpdateShape ==
    \A i \in 1..Len(heap) : \A u \in UpdatesOf(i) :
        /\ u.start_ms <= u.end_ms
        /\ u.duration_ms = u.end_ms - u.start_ms
        /\ u.token_count >= 0
        /\ u.chunk_count >= 1

\* C4 witness: an update whose segment starts after it ends and whose duration is 0
C4_Witness ==
    \E i \in 1..Len(heap) : \E u \in UpdatesOf(i) :
        /\ u.start_ms > u.end_ms
        /\ u.duration_ms = 0
        /\ u.chunk_count >= 2

\* C5: every update of a session created with any wait-k configuration that create
\* accepts satisfies min_wait_k <= wait_k_used <= max_wait_k.
C5_WaitKInRange ==
    \A i \in 1..Len(heap) : \A u \in UpdatesOf(i) :
        /\ heap[i].config.min_wait_k <= u.wait_k_used
        /\ u.wait_k_used <= heap[i].config.max_wait_k

\* C5 witness: an update of a session created with min_wait_k > max_wait_k records a
\* wait_k_used above max_wait_k
C5_Witness ==
    \E i \in 1..Len(heap) : \E u \in UpdatesOf(i) :
        /\ heap[i].config.min_wait_k > heap[i].config.max_wait_k
        /\ u.wait_k_used = heap[i].config.min_wait_k
        /\ u.wait_k_used > heap[i].config.max_wait_k

\* C6: the k-th frame has frame_id k, the frame of every event carries the update_id of
\* its update as frame_id and update_id, and the event log length, the engine's update
\* counter and the renderer's frame counter are equal whenever the session lock is free.
C6_CountersAgree ==
    \A i \in 1..Len(heap) :
        /\ \A k \in 1..Len(heap[i].renderer.frames) :
              heap[i].renderer.frames[k].frame_id = k
        /\ \A k \in 1..Len(heap[i].events) :
              /\ heap[i].events[k].render_frame.frame_id
                    = heap[i].events[k].update.update_id
              /\ heap[i].events[k].render_frame.update_id
                    = heap[i].events[k].update.update_id
        /\ (heap[i].lock = 0) =>
              /\ Len(heap[i].events) = heap[i].engine.update_id
              /\ heap[i].engine.update_id = heap[i].renderer.frame_id

\* C6 witness: the lock of a session is free, its renderer has applied an update and
\* the event of that update was never recorded
C6_Witness ==
    \E i \in 1..Len(heap) :
        /\ heap[i].lock = 0
        /\ heap[i].renderer.frame_id = heap[i].engine.update_id
        /\ Len(heap[i].events) < heap[i].renderer.frame_id
        /\ \E t \in Threads : resp[t].status = 0 /\ resp[t].kind \in {"chunk", "flush"}

\* C7: no step removes a node id from the renderer of a session, and node_count does
\* not decrease from one frame to the next.
C7_NodesKept ==
    [][\A i \in 1..Len(heap) :
          /\ NodeIds(heap[i].renderer.nodes) \subseteq NodeIds(heap'[i].renderer.nodes)
          /\ \A k \in 2..Len(heap'[i].renderer.frames) :
                heap'[i].renderer.frames[k - 1].node_count
                    <= heap'[i].renderer.frames[k].node_count]_vars

\* C7 witness: a second update has added nodes to a renderer that already held nodes
C7_Witness ==
    \E i \in 1..Len(heap) :
        /\ Len(heap[i].renderer.frames) >= 2
        /\ heap[i].renderer.frames[1].node_count >= 1
        /\ heap[i].renderer.frames[2].node_count > heap[i].renderer.frames[1].node_count

\* C8: no step changes the position of a node that already existed, and every frame
\* after the first has unchanged_max_drift = 0 and mental_map_score >= 0.85.
C8_OldNodesFixed ==
    [][\A i \in 1..Len(heap) :
          /\ \A k \in 1..Len(heap[i].renderer.nodes) :
                /\ heap'[i].renderer.nodes[k].id = heap[i].renderer.nodes[k].id
                /\ heap'[i].renderer.nodes[k].x = heap[i].renderer.nodes[k].x
                /\ heap'[i].renderer.nodes[k].y = heap[i].renderer.nodes[k].y
          /\ \A k \in 2..Len(heap'[i].renderer.frames) :
                /\ heap'[i].renderer.frames[k].unchanged_max_drift = 0
                /\ heap'[i].renderer.frames[k].mental_map_score >= 8500]_vars

\* C8 witness: after the second frame a node of the first frame has a node of the
\* second frame closer than min_distance on both axes, so that relaxation had a
\* repulsion between the two to resolve
C8_Witness ==
    \E i \in 1..Len(heap) :
        /\ Len(heap[i].renderer.frames) >= 2
        /\ \E a \in 1..Len(heap[i].renderer.nodes), b \in 1..Len(heap[i].renderer.nodes) :
              /\ heap[i].renderer.nodes[a].created_frame = 1
              /\ heap[i].renderer.nodes[b].created_frame = 2
              /\ Abs(heap[i].renderer.nodes[a].x - heap[i].renderer.nodes[b].x)
                    < min_distance
              /\ Abs(heap[i].renderer.nodes[a].y - heap[i].renderer.nodes[b].y)
                    < min_distance

\* C9: a flush emits exactly one update, with reason stream_end and all pending chunks,
\* when chunks are pending, and none when the buffer is empty; the buffer is empty
\* afterwards, so that a second flush without an ingest in between emits nothing.
C9_FlushOnce ==
    [][\A t \in Threads :
          FlushStep(t) =>
              LET before == heap[req[t].obj].engine
                  after == heap'[req[t].obj].engine
                  ups == req'[t].updates
              IN  /\ after.pending = <<>>
                  /\ after.pending_tokens = 0
                  /\ IF before.pending = <<>>
                     THEN ups = <<>> /\ after = before
                     ELSE /\ Len(ups) = 1
                          /\ ups[1].boundary_reason = "stream_end"
                          /\ ups[1].chunk_count = Len(before.pending)
                          /\ ups[1].start_ms = before.pending[1].timestamp_ms
                          /\ ups[1].end_ms
                                = before.pending[Len(before.pending)].timestamp_ms]_vars

\* C9 witness: the second flush of a session has emitted nothing, the last recorded
\* update being the stream_end update of the first flush
C9_Witness ==
    \E t \in Threads :
        /\ req[t].pc = "flush_consume"
        /\ req[t].updates = <<>>
        /\ budget.flush = 2
        /\ Obj(t).events # <<>>
        /\ Obj(t).events[Len(Obj(t).events)].update.boundary_reason = "stream_end"
        /\ Obj(t).events[Len(Obj(t).events)].update.update_id = Obj(t).engine.update_id

\* the pipeline without its wall clock derived fields
Timeless(pipeline) ==
    [pipeline EXCEPT !.meta.runtime_ms = 0, !.meta.speedup_vs_realtime = 0]

\* C10: a snapshot leaves every session unchanged, and the pipelines that snapshots
\* return between two ingests or flushes of a session are equal up to runtime_ms and
\* speedup_vs_realtime.
C10_SnapshotReadOnly ==
    [][/\ \A t \in Threads :
             (req[t].pc = "snapshot_wait" /\ req'[t].pc = "snapshot_respond") =>
                 heap' = heap
       /\ \A i \in 1..Len(snap_log') :
             \A j \in 1..Len(snap_log'[i]), k \in 1..Len(snap_log'[i]) :
                 Timeless(snap_log'[i][j]) = Timeless(snap_log'[i][k])]_vars

\* C10 witness: two snapshots in a row of a session with an event have returned
\* pipelines that differ in runtime_ms
C10_Witness ==
    \E i \in 1..Len(snap_log) :
        /\ Len(snap_log[i]) = 2
        /\ snap_log[i][1].events # <<>>
        /\ snap_log[i][1].meta.runtime_ms < snap_log[i][2].meta.runtime_ms

\* what C11 compares of an update
UpdateView(u) ==
    [update_id |-> u.update_id, boundary_reason |-> u.boundary_reason,
     start_ms |-> u.start_ms, end_ms |-> u.end_ms, chunk_count |-> u.chunk_count,
     transcript_text |-> u.transcript_text, intent_type |-> u.intent_type,
     operations |-> u.operations]

\* the updates a session has emitted once the flush of thread t has run: those of the
\* recorded events and those of the flush
LiveUpdates(t) ==
    [k \in 1..Len(Obj(t).events) |-> Obj(t).events[k].update] \o req[t].updates

\* thread t has run the first flush of a session none of whose requests has raised
FlushedOnce(t) ==
    /\ req[t].pc = "flush_consume"
    /\ budget.flush = 1
    /\ Len(Obj(t).events) + Len(req[t].updates) = Obj(t).engine.update_id

\* C11: N chunks fed in list order through N ingests and then flushed emit the same
\* updates (ids, reasons, groupings, intents, operations) as run_realtime_pipeline on
\* the same list with the same configuration.
C11_ReplayEquivalent ==
    \A t \in Threads :
        FlushedOnce(t) =>
            LET live == LiveUpdates(t)
                offline == run_realtime_pipeline(chunk_log[req[t].obj], Obj(t).config)
            IN  /\ Len(live) = Len(offline)
                /\ \A k \in 1..Len(live) : UpdateView(live[k]) = UpdateView(offline[k])

\* C11 witness: a list whose timestamps decrease was fed and flushed, and the live
\* session has emitted another first boundary reason than the replay of the list
C11_Witness ==
    \E t \in Threads :
        /\ FlushedOnce(t)
        /\ \E k \in 2..Len(chunk_log[req[t].obj]) :
              chunk_log[req[t].obj][k].timestamp_ms
                  < chunk_log[req[t].obj][k - 1].timestamp_ms
        /\ LiveUpdates(t) # <<>>
        /\ LiveUpdates(t)[1].boundary_reason
              # run_realtime_pipeline(chunk_log[req[t].obj],
                                      Obj(t).config)[1].boundary_reason

\* the step of thread t reads or writes fields of the session object it looked up:
\* sess.last_ts for the default timestamp, the bodies of the "with sess.lock" blocks,
\* and the events list that the response serialises
AccessStep(t) ==
    /\ req[t].pc \in {"chunk_ts", "chunk_wait", "chunk_consume", "chunk_respond",
                      "flush_wait", "flush_consume", "flush_respond",
                      "snapshot_wait", "snapshot_respond"}
    /\ req'[t] # req[t]

\* C12: the ingest, flush and snapshot critical sections of a session exclude each
\* other, and no request accesses the state of a session while another request holds
\* the lock of that session.
C12_LockCoversAccess ==
    [][/\ \A t \in Threads :
             AccessStep(t) => heap[req[t].obj].lock \in {0, t}
       /\ \A t \in Threads, u \in Threads :
             (/\ t # u
              /\ req'[t].pc \in {"chunk_consume", "flush_consume"}
              /\ req'[u].pc \in {"chunk_consume", "flush_consume"})
                => req'[t].obj # req'[u].obj]_vars

\* C12 witness: thread t has computed its default timestamp from the last_ts that the
\* only ingest_chunk call so far has written, and that call still holds the lock
C12_Witness ==
    \E t \in Threads, u \in Threads :
        /\ t # u
        /\ req[t].pc = "chunk_wait"
        /\ req[u].pc = "chunk_consume"
        /\ req[u].obj = req[t].obj
        /\ Obj(t).lock = u
        /\ Obj(t).chunk_count = 1
        /\ Obj(t).last_ts # None
        /\ req[t].timestamp_ms = Some(Obj(t).last_ts[1] + 450)

\* C13: a close request does not remove a session while an ingest, flush or snapshot
\* call that has looked the session up is still in flight.
C13_CloseWaits ==
    [][(budget'.close = budget.close + 1) =>
          \A sid \in DOMAIN SESSIONS :
              (SESSIONS[sid] # 0 /\ SESSIONS'[sid] = 0) =>
                  \A u \in Threads :
                      req[u].pc # "idle" => req[u].obj # SESSIONS[sid]]_vars

\* C13 witness: a close request has removed a session and responded, and a chunk request
\* that looked the session up before is inside its critical section
C13_Witness ==
    \E t \in Threads, u \in Threads :
        /\ t # u
        /\ resp[t].kind = "close"
        /\ resp[t].closed
        /\ req[t].pc = "idle"
        /\ req[u].pc = "chunk_consume"
        /\ Obj(u).lock = u
        /\ SESSIONS[req[u].session_id] = 0

\* C14: in every payload answered by snapshot, flush or chunk the number of events
\* (events_total in the chunk response) equals summary.updates_emitted of that payload.
C14_ConsistentPrefix ==
    \A t \in Threads :
        /\ (resp[t].status = 200 /\ resp[t].kind \in {"snapshot", "flush"}) =>
              Len(resp[t].pipeline.events) = resp[t].pipeline.summary.updates_emitted
        /\ (resp[t].status = 200 /\ resp[t].kind = "chunk") =>
              resp[t].events_total = resp[t].session_summary.updates_emitted

\* C14 witness: a snapshot response carries an event although its summary counts no
\* update, the event having been recorded by the request of the other thread
C14_Witness ==
    \E t \in Threads, u \in Threads :
        /\ t # u
        /\ resp[t].status = 200
        /\ resp[t].kind = "snapshot"
        /\ resp[t].pipeline.summary.updates_emitted = 0
        /\ Len(resp[t].pipeline.events) = 1
        /\ resp[t].pipeline.engine_report.updates_emitted = 0

\* the chunks an engine was given, as it stores them
AsChunks(log) == [k \in 1..Len(log) |-> [timestamp_ms |-> log[k].timestamp_ms,
                                         text |-> log[k].text]]

\* the last n entries of a sequence
LastN(s, n) == SubSeq(s, Len(s) - n + 1, Len(s))

CreateStep == budget'.create = budget.create + 1

\* the session objects the registry holds
Registered == {SESSIONS[sid] : sid \in DOMAIN SESSIONS} \ {0}

\* the part of C16 about the sessions a step is not addressed to: a session object
\* changes only in a step of a request that looked it up, and a create changes no
\* session object
OthersUntouched ==
    /\ \A i \in 1..Len(heap) :
          heap'[i] # heap[i] =>
              \E t \in Threads :
                  /\ req[t].pc # "idle"
                  /\ req[t].obj = i
                  /\ req'[t] # req[t]
                  /\ \A j \in 1..Len(heap) : j # i => heap'[j] = heap[j]
    /\ CreateStep => \A i \in 1..Len(heap) : heap'[i] = heap[i]

\* C16: sessions are isolated, an operation addressed to one session or creating one
\* leaves every other registered session as it was, and create yields a session_id the
\* registry does not hold, so that every session registered before is still registered
\* under its id afterwards.
C16_Isolated ==
    [][/\ OthersUntouched
       /\ CreateStep =>
             /\ Len(heap') = Len(heap) + 1
             /\ \E sid \in DOMAIN SESSIONS :
                   /\ SESSIONS[sid] = 0
                   /\ SESSIONS' = [SESSIONS EXCEPT ![sid] = Len(heap')]
             /\ Registered \subseteq Registered']_vars

\* C16 witness: a second create was answered with the session_id of the first session,
\* which had accepted a chunk; the registry holds the new, empty session under that id
\* and the first session under none
C16_Witness ==
    /\ Len(heap) = 2
    /\ heap[1].chunk_count = 1
    /\ heap[2].chunk_count = 0
    /\ heap[1].session_id = heap[2].session_id
    /\ Registered = {2}
    /\ \E t \in Threads : resp[t].kind = "create" /\ resp[t].status = 200

\* the isolation part of C16 alone
C16_FrameOnly == [][OthersUntouched]_vars

\* a step in which thread t receives the response r
Answered(t) == budget' # budget /\ resp'[t] # resp[t]

\* a step in which the request of thread t passes the validation of its handler
Admitted(t) == budget' # budget /\ req[t].pc = "idle" /\ req'[t].pc # "idle"

\* C17: a request of the session surface with a missing or empty text, without a
\* session id or with a body that is not JSON is answered with status 400 and an error,
\* and leaves the registry and every session as they were: no such request is admitted
\* or answered with 200, and a step that answers 400 changes nothing.
C17_MalformedRejected ==
    [][\A t \in Threads :
          /\ Admitted(t) =>
                /\ req'[t].session_id # ""
                /\ req'[t].kind = "chunk" => Strip(req'[t].text) # ""
          /\ Answered(t) /\ resp'[t].status = 400 =>
                /\ resp'[t].error \in {"session_id required", "text required"}
                /\ UNCHANGED <<SESSIONS, heap>>
          /\ Answered(t) /\ resp'[t].status = 200 =>
                /\ resp'[t].session_id # ""
                /\ resp'[t].kind = "create" => resp'[t].body = "json"]_vars

\* C17 witness: a create request whose body is not JSON was answered with 200 and the
\* id of the session it registered, after a chunk request with a blank text had been
\* refused
C17_Witness ==
    \E t \in Threads :
        /\ resp[t].status = 200
        /\ resp[t].kind = "create"
        /\ resp[t].body = "text"
        /\ resp[t].config = DefaultConfig
        /\ budget.create = 2 /\ budget.chunk = 1
        /\ Len(heap) = 2
        /\ heap[1].chunk_count = 0
        /\ SESSIONS[resp[t].session_id] = 2

\* C17 without create: the requests that name a session
C17_NamedOnly ==
    [][\A t \in Threads :
          /\ Admitted(t) =>
                /\ req'[t].session_id # ""
                /\ req'[t].kind = "chunk" => Strip(req'[t].text) # ""
          /\ Answered(t) /\ resp'[t].status = 400 =>
                /\ resp'[t].error \in {"session_id required", "text required"}
                /\ UNCHANGED <<SESSIONS, heap>>
          /\ Answered(t) /\ resp'[t].status = 200 => resp'[t].session_id # ""]_vars

\* a step that serves a request for a session_id the registry does not hold: a lookup
\* for it fails, or a close finds nothing to remove
UnknownServed(t) ==
    /\ Answered(t)
    /\ \/ resp'[t].status = 404
       \/ resp'[t].kind = "close" /\ resp'[t].status # 400
                                 /\ Lookup(resp'[t].session_id) = 0

\* C18: a chunk, flush, snapshot or close request that names a session_id the registry
\* does not hold is answered with status 404 and an error and changes neither the
\* registry nor a session; a request is admitted to a session only through the registry.
C18_UnknownRejected ==
    [][\A t \in Threads :
          /\ UnknownServed(t) =>
                /\ resp'[t].status = 404
                /\ resp'[t].error = "session not found"
                /\ UNCHANGED <<SESSIONS, heap>>
          /\ Admitted(t) =>
                /\ Lookup(req'[t].session_id) # 0
                /\ req'[t].obj = Lookup(req'[t].session_id)]_vars

\* C18 witness: with one session registered, a close request for the id of no session
\* was answered with 200 and closed = false
C18_Witness ==
    \E t \in Threads :
        /\ resp[t].kind = "close"
        /\ resp[t].status = 200
        /\ resp[t].session_id = UnknownId
        /\ ~resp[t].closed
        /\ Registered = {1}

\* C18 for the requests that look the session up: chunk, flush and snapshot
C18_LookupsOnly ==
    [][\A t \in Threads :
          /\ Answered(t) /\ resp'[t].status = 404 =>
                /\ resp'[t].error = "session not found"
                /\ resp'[t].kind \in {"chunk", "flush", "snapshot"}
                /\ UNCHANGED <<SESSIONS, heap>>
          /\ Admitted(t) =>
                /\ Lookup(req'[t].session_id) # 0
                /\ req'[t].obj = Lookup(req'[t].session_id)]_vars

\* the step in which thread t writes the response of its flush request
FlushAnswer(t) == req[t].pc = "flush_respond" /\ req'[t].pc = "idle"

\* C19: when a flush request that does not carry close_after_flush = false has
\* responded, its session_id is not in the registry, so that a later chunk, flush or
\* snapshot request for it is answered as for an unknown session; the closed flag of
\* the response is true exactly when the flush took the session out of the registry,
\* which a flush with close_after_flush = false does not do.
C19_FlushCloses ==
    [][\A t \in Threads :
          /\ FlushAnswer(t) =>
                /\ resp'[t].status = 200
                /\ resp'[t].closed = (req[t].close_after_flush # Some(JsonBool(FALSE)))
                /\ resp'[t].closed => Lookup(req[t].session_id) = 0
          /\ req[t].pc = "flush_close" /\ req'[t].pc # "flush_close" =>
                /\ req[t].close_after_flush # Some(JsonBool(FALSE))
                /\ SESSIONS'[req[t].session_id] = 0
          /\ req[t].pc = "flush_consume" /\ req'[t].pc = "flush_respond" =>
                req[t].close_after_flush = Some(JsonBool(FALSE))
          /\ Admitted(t) => Lookup(req'[t].session_id) # 0]_vars

\* C19 witness: a flush request with close_after_flush = null is about to respond; it
\* has recorded the stream_end update and its session is still registered
C19_Witness ==
    \E t \in Threads :
        /\ req[t].pc = "flush_respond"
        /\ req[t].close_after_flush = Some(JsonNull)
        /\ Lookup(req[t].session_id) = req[t].obj
        /\ Len(req[t].emitted) = 1
        /\ req[t].emitted[1].update.boundary_reason = "stream_end"
        /\ req[t].pipeline.summary.updates_emitted = 1

\* the two accepted chunks of the silence example, payment at 0 ms and ledger at 2000 ms
SilenceExample ==
    << [timestamp_ms |-> 0, text |-> TextPayment],
       [timestamp_ms |-> 2000, text |-> TextLedger] >>

\* C20: in a fresh session of the default configuration that was given the chunk at
\* 0 ms and then the chunk at 2000 ms, 4 content tokens each, the first flush leaves
\* exactly two updates: the first has boundary_reason silence_gap and holds only the
\* chunk before the silence, the chunk after it is the second update.
C20_SilenceSplits ==
    [][\A t \in Threads :
          FlushStep(t) /\ budget.flush = 1
                       /\ Obj(t).config = DefaultConfig
                       /\ AsChunks(chunk_log[req[t].obj]) = SilenceExample =>
              /\ Len(tokenize(TextPayment)) = 4 /\ Len(tokenize(TextLedger)) = 4
              /\ heap'[req[t].obj].engine.update_id = 2
              /\ Len(Obj(t).events) = 1
              /\ Obj(t).events[1].update.boundary_reason = "silence_gap"
              /\ Obj(t).events[1].update.chunk_count = 1
              /\ Obj(t).events[1].update.transcript_text = TextPayment
              /\ Len(req'[t].updates) = 1
              /\ req'[t].updates[1].chunk_count = 1
              /\ req'[t].updates[1].transcript_text = TextLedger]_vars

\* C20 witness: after the two chunks of the example the first flush has emitted
\* nothing: the only update of the session is a silence_gap update holding both chunks
C20_Witness ==
    \E t \in Threads :
        /\ req[t].pc = "flush_consume"
        /\ budget.flush = 1
        /\ req[t].updates = <<>>
        /\ AsChunks(chunk_log[req[t].obj]) = SilenceExample
        /\ Obj(t).engine.update_id = 1
        /\ Len(Obj(t).events) = 1
        /\ Obj(t).events[1].update.boundary_reason = "silence_gap"
        /\ Obj(t).events[1].update.chunk_count = 2
        /\ Obj(t).events[1].update.token_count = 8
        /\ Obj(t).events[1].update.start_ms = 0
        /\ Obj(t).events[1].update.end_ms = 2000

\* the two accepted chunks of the long silence: one token at 0 ms, one at 5000 ms
LongSilence ==
    << [timestamp_ms |-> 0, text |-> TextShort],
       [timestamp_ms |-> 5000, text |-> TextShort] >>

\* C21: in a fresh session of the default configuration, the ingest of a second short
\* chunk 5000 ms after a first short chunk, both far below min_boundary_tokens, closes
\* the first segment with boundary_reason silence_gap.
C21_LongSilenceCloses ==
    [][\A t \in Threads :
          IngestStep(t) /\ Obj(t).config = DefaultConfig
                        /\ budget.flush = 0
                        /\ AsChunks(chunk_log'[req[t].obj]) = LongSilence =>
              /\ Len(req'[t].updates) = 1
              /\ req'[t].updates[1].update_id = 1
              /\ req'[t].updates[1].boundary_reason = "silence_gap"]_vars

\* C21 witness: the second short chunk, 5000 ms after the first, has closed the
\* segment with max_window_ms: the two chunks hold 2 tokens, fewer than the silence
\* rule asks for
C21_Witness ==
    \E t \in Threads :
        /\ req[t].pc = "chunk_consume"
        /\ budget.flush = 0
        /\ AsChunks(chunk_log[req[t].obj]) = LongSilence
        /\ Len(req[t].updates) = 1
        /\ req[t].updates[1].boundary_reason = "max_window_ms"
        /\ req[t].updates[1].chunk_count = 2
        /\ req[t].updates[1].token_count = 2
        /\ req[t].updates[1].token_count < min_boundary_tokens
        /\ req[t].updates[1].end_ms - req[t].updates[1].start_ms >= silence_boundary_ms

\* C22: in a fresh session of any configuration create accepts, the ingest of a single
\* non-empty chunk followed by a flush emits exactly one update in total, and that
\* update has boundary_reason stream_end.
C22_SingleChunkFlush ==
    [][\A t \in Threads :
          FlushStep(t) /\ budget.flush = 1 /\ Len(chunk_log[req[t].obj]) = 1 =>
              /\ heap'[req[t].obj].engine.update_id = 1
              /\ Obj(t).events = <<>>
              /\ Len(req'[t].updates) = 1
              /\ req'[t].updates[1].boundary_reason = "stream_end"
              /\ req'[t].updates[1].chunk_count = 1]_vars

\* C22 witness: in a session created with base_wait_k = 1 the single chunk, a sentence
\* of 6 tokens or more, was dispatched by its own ingest with sentence_end, and the
\* flush after it has emitted nothing
C22_Witness ==
    \E t \in Threads :
        /\ req[t].pc = "flush_consume"
        /\ budget.flush = 1
        /\ Len(chunk_log[req[t].obj]) = 1
        /\ Obj(t).config.base_wait_k = 1
        /\ req[t].updates = <<>>
        /\ Obj(t).engine.update_id = 1
        /\ Len(Obj(t).events) = 1
        /\ Obj(t).events[1].update.boundary_reason = "sentence_end"
        /\ Obj(t).events[1].update.chunk_count = 1

\* C22 for the sessions whose base_wait_k is 2 or more
C22_PatientOnly ==
    [][\A t \in Threads :
          FlushStep(t) /\ budget.flush = 1 /\ Len(chunk_log[req[t].obj]) = 1
                       /\ Obj(t).config.base_wait_k >= 2 =>
              /\ heap'[req[t].obj].engine.update_id = 1
              /\ Obj(t).events = <<>>
              /\ Len(req'[t].updates) = 1
              /\ req'[t].updates[1].boundary_reason = "stream_end"
              /\ req'[t].updates[1].chunk_count = 1]_vars

\* the four accepted chunks of the sequential chain
ChainExample ==
    << [timestamp_ms |-> 0, text |-> TextFirst],
       [timestamp_ms |-> 450, text |-> TextThen],
       [timestamp_ms |-> 900, text |-> TextNext],
       [timestamp_ms |-> 1400, text |-> TextFinally] >>

\* the updates a session has emitted once the flush of thread t has run, in order
EmittedBy(t) ==
    [k \in 1..Len(Obj(t).events) |-> Obj(t).events[k].update] \o req'[t].updates

\* C23: in a session of the default configuration that was given the four chunks of
\* the sequential chain at 0, 450, 900 and 1400 ms and then flushed, the last update
\* emitted has wait_k_used >= 2.
C23_ChainWidens ==
    [][\A t \in Threads :
          FlushStep(t) /\ Obj(t).config = DefaultConfig
                       /\ AsChunks(chunk_log[req[t].obj]) = ChainExample =>
              /\ EmittedBy(t) # <<>>
              /\ EmittedBy(t)[Len(EmittedBy(t))].wait_k_used >= 2]_vars

\* C23 witness: the chain was given and flushed; the flush emitted nothing, and the
\* last of the two sequential updates, closed by the sentence end, has wait_k_used 1
C23_Witness ==
    \E t \in Threads :
        /\ req[t].pc = "flush_consume"
        /\ req[t].updates = <<>>
        /\ AsChunks(chunk_log[req[t].obj]) = ChainExample
        /\ Len(Obj(t).events) = 2
        /\ Obj(t).events[1].update.boundary_reason = "discourse_marker"
        /\ Obj(t).events[1].update.intent_type = "sequential"
        /\ Obj(t).events[1].update.wait_k_used = 1
        /\ Obj(t).events[2].update.boundary_reason = "sentence_end"
        /\ Obj(t).events[2].update.intent_type = "sequential"
        /\ Obj(t).events[2].update.intent_confidence = 8929
        /\ Obj(t).events[2].update.wait_k_used = 1

\* the hits of the class that has the most hits
TopHits(hits) ==
    CHOOSE m \in 0..Len(hits) :
        /\ \A it \in DOMAIN INTENT_KEYWORDS : CountIn(hits, it) <= m
        /\ hits # <<>> => \E it \in DOMAIN INTENT_KEYWORDS : CountIn(hits, it) = m

\* c, in 1/10000, is the value num / den rounded to 4 decimals
RoundsTo(c, num, den) == 2 * c * den - den <= 2 * num /\ 2 * num <= 2 * c * den + den

\* c is clamp(0.45 + 0.40 * top/total + 0.15 * min(total/max(n, 1), 1), 0.35, 0.96)
\* for a text of n tokens
HitConfidence(c, n, total, top) ==
    LET den == total * Max2(n, 1)
        num == 4500 * den + 4000 * top * Max2(n, 1) + 1500 * total * Min2(total, Max2(n, 1))
    IN  \/ RoundsTo(c, num, den) /\ 3500 <= c /\ c <= 9600
        \/ c = 3500 /\ num <= 3500 * den
        \/ c = 9600 /\ num >= 9600 * den

\* C24: for a text of any number of tokens and any keyword hits the confidence of the
\* classifier lies in [0.35, 0.96]; without hits the intent is generic and the
\* confidence min(0.42 + tokens/100, 0.55), with hits it is
\* clamp(0.45 + 0.40 * top_hits/total_hits + 0.15 * min(total_hits/max(tokens, 1), 1),
\* 0.35, 0.96).
C24_ConfidenceFormula ==
    \A t \in Threads :
        resp[t].kind = "classify" =>
            /\ 3500 <= resp[t].confidence /\ resp[t].confidence <= 9600
            /\ IF resp[t].hits = <<>>
               THEN /\ resp[t].intent = "generic"
                    /\ resp[t].confidence = Min2(4200 + 100 * resp[t].tokens, 5500)
               ELSE HitConfidence(resp[t].confidence, resp[t].tokens, Len(resp[t].hits),
                                  TopHits(resp[t].hits))

\* C24 witness: a text without any token was classified generic with confidence 0.35
C24_Witness ==
    \E t \in Threads :
        /\ resp[t].kind = "classify"
        /\ resp[t].tokens = 0
        /\ resp[t].hits = <<>>
        /\ resp[t].intent = "generic"
        /\ resp[t].confidence = 3500

\* C24 for the texts that have a token
C24_WithTokens ==
    \A t \in Threads :
        resp[t].kind = "classify" /\ resp[t].tokens >= 1 =>
            /\ 3500 <= resp[t].confidence /\ resp[t].confidence <= 9600
            /\ IF resp[t].hits = <<>>
               THEN /\ resp[t].intent = "generic"
                    /\ resp[t].confidence = Min2(4200 + 100 * resp[t].tokens, 5500)
               ELSE HitConfidence(resp[t].confidence, resp[t].tokens, Len(resp[t].hits),
                                  TopHits(resp[t].hits))

\* the confidence of every update of every session lies in [0.35, 0.96]
C24_UpdatesInRange ==
    \A i \in 1..Len(heap) :
        \A u \in UpdatesOf(i) : 3500 <= u.intent_confidence /\ u.intent_confidence <= 9600

\* the names of the checks of an evaluation that are false
FailedChecks(r) == {name \in DOMAIN r.checks : ~r.checks[name]}

\* C25: realtime_eval_pass is true exactly when latency_p95_ok, flicker_mean_ok,
\* mental_map_ok and intent_accuracy_ok are all true; intent_accuracy_ok is true when
\* there is no labeled accuracy; a payload that only exceeds the e2e p95 threshold of
\* 2000 ms fails with latency_p95_ok as its only false check.
C25_PassIsConjunction ==
    \A t \in Threads :
        resp[t].kind = "evaluate" =>
            LET in == resp[t].summary
            IN  /\ DOMAIN resp[t].checks = {"latency_p95_ok", "flicker_mean_ok",
                                            "mental_map_ok", "intent_accuracy_ok"}
                /\ resp[t].realtime_eval_pass = (FailedChecks(resp[t]) = {})
                /\ in.intent_labeled_accuracy = None => resp[t].checks.intent_accuracy_ok
                /\ ( /\ in.latency_e2e_p95 # None /\ in.latency_e2e_p95[1] > 20000000
                     /\ in.flicker_mean # None /\ in.flicker_mean[1] <= 60000
                     /\ in.mental_map_mean # None /\ in.mental_map_mean[1] >= 8500
                     /\ \/ in.intent_labeled_accuracy = None
                        \/ in.intent_labeled_accuracy[1] >= 8000 )
                      => /\ ~resp[t].realtime_eval_pass
                         /\ FailedChecks(resp[t]) = {"latency_p95_ok"}

\* C25 witness: an unlabeled payload whose e2e p95 is just above 2000 ms while flicker
\* and mental map are at their thresholds was evaluated: it fails on latency alone
C25_Witness ==
    \E t \in Threads :
        /\ resp[t].kind = "evaluate"
        /\ resp[t].summary = [latency_e2e_p95 |-> Some(20000001),
                               flicker_mean |-> Some(60000),
                               mental_map_mean |-> Some(8500),
                               intent_labeled_accuracy |-> None]
        /\ ~resp[t].realtime_eval_pass
        /\ FailedChecks(resp[t]) = {"latency_p95_ok"}

\* C26: the chunks posted to a session without timestamp_ms get timestamps 450 ms
\* apart in arrival order, 0 for the first chunk of the session and the timestamp of
\* the previous chunk plus 450 afterwards, so that no two of them have the same
\* timestamp, also when chunk requests are served concurrently.
C26_AutoTimestamps ==
    \A i \in 1..Len(chunk_log) :
        \A k \in 1..Len(chunk_log[i]) :
            chunk_log[i][k].auto =>
                /\ chunk_log[i][k].timestamp_ms
                      = IF k = 1 THEN 0 ELSE chunk_log[i][k - 1].timestamp_ms + 450
                /\ \A j \in 1..(k - 1) :
                      chunk_log[i][j].auto =>
                          chunk_log[i][j].timestamp_ms # chunk_log[i][k].timestamp_ms

\* C26 witness: two chunk requests without timestamp_ms were served at the same time
\* by the new session; both read last_ts before either was ingested, and both chunks
\* were accepted with timestamp 0
C26_Witness ==
    \E i \in 1..Len(chunk_log) :
        /\ Len(chunk_log[i]) = 2
        /\ chunk_log[i][1].auto /\ chunk_log[i][2].auto
        /\ chunk_log[i][1].timestamp_ms = 0
        /\ chunk_log[i][2].timestamp_ms = 0
        /\ heap[i].chunk_count = 2
        /\ heap[i].last_ts = Some(0)

\* clamp(base_wait_k + d, min_wait_k, max_wait_k)
WaitKFor(config, d) ==
    IF config.base_wait_k + d > config.max_wait_k
    THEN IF config.max_wait_k < config.min_wait_k THEN config.min_wait_k
         ELSE config.max_wait_k
    ELSE IF config.base_wait_k + d < config.min_wait_k THEN config.min_wait_k
    ELSE config.base_wait_k + d

\* the step d of the claim for a confidence (in 1/10000) and the keyword sets prev and cur,
\* not both empty: novelty = 1 - |prev \cap cur| / |prev \cup cur|
WaitKStep(confidence, prev, cur) ==
    LET union == Cardinality(prev \cup cur)
        differ == union - Cardinality(prev \cap cur)
    IN  IF confidence >= 7800 /\ 100 * differ <= 35 * union THEN 1
        ELSE IF confidence < 5200 \/ 100 * differ >= 80 * union THEN 0 - 1
        ELSE 0

\* C27: after a dispatch current_wait_k is clamp(base_wait_k + d, min_wait_k,
\* max_wait_k) with d = +1 if confidence >= 0.78 and novelty <= 0.35, d = -1 if
\* confidence < 0.52 or novelty >= 0.80, d = 0 otherwise, where novelty is 1 minus the
\* Jaccard index of the previous and the new keywords (for two empty keyword sets,
\* which have no Jaccard index, d is one of -1, 0, +1); last_keywords is then the new
\* keywords.
C27_WaitKRule ==
    \A t \in Threads :
        resp[t].kind = "wait_k" =>
            LET in == resp[t].called
                prev == SeqToSet(in.last_keywords)
                cur == SeqToSet(in.keywords)
            IN  /\ resp[t].last_keywords = in.keywords
                /\ IF prev \cup cur # {}
                   THEN resp[t].current_wait_k
                           = WaitKFor(in.config, WaitKStep(in.confidence, prev, cur))
                   ELSE \E d \in {0 - 1, 0, 1} :
                           resp[t].current_wait_k = WaitKFor(in.config, d)

\* C27 witness: with confidence 0.78 and 4 of 5 keywords kept (novelty 0.2) the default
\* configuration moved to wait-k 3
C27_Witness ==
    \E t \in Threads :
        /\ resp[t].kind = "wait_k"
        /\ resp[t].called.config = DefaultConfig
        /\ resp[t].called.confidence = 7800
        /\ Len(resp[t].called.last_keywords) = 5
        /\ Len(resp[t].called.keywords) = 4
        /\ resp[t].current_wait_k = 3
        /\ resp[t].last_keywords = resp[t].called.keywords

\* C27 at the dispatches of the sessions: the wait-k and the keywords the engine
\* holds after an update are those of the rule applied to the update
C27_Dispatches ==
    [][\A t \in Threads :
          (IngestStep(t) \/ FlushStep(t)) /\ req'[t].updates # <<>> =>
              LET before == heap[req[t].obj].engine
                  after == heap'[req[t].obj].engine
                  u == req'[t].updates[1]
                  prev == SeqToSet(before.last_keywords)
                  cur == SeqToSet(u.keywords)
              IN  /\ after.last_keywords = u.keywords
                  /\ u.wait_k_used = after.current_wait_k
                  /\ prev \cup cur # {} =>
                        after.current_wait_k
                           = WaitKFor(before.config,
                                      WaitKStep(u.intent_confidence, prev, cur))]_vars

\* C28: for update u with K = min(6, |keywords|) >= 1 the operations are K add_node
\* ops with the pairwise distinct ids u{u}_n1 .. u{u}_nK, followed by the K-1 chain
\* edges n_i -> n_{i+1} for a sequential or contrastive intent, by the K-1 hub edges
\* n1 -> n_j (j = 2..K) for a structural or relational intent, and by no edge for
\* classification or generic; every edge endpoint is a node added in the same update.
C28_OperationsShape ==
    \A t \in Threads :
        resp[t].kind = "ops" /\ resp[t].called.keywords # <<>> =>
            LET in == resp[t].called
                ops == resp[t].operations
                K == IF Len(in.keywords) < 6 THEN Len(in.keywords) ELSE 6
                Added == {ops[i].id : i \in 1..K}
                Edge(j) == <<ops[K + j].from, ops[K + j].to>>
            IN  /\ Len(ops) >= K
                /\ \A i \in 1..K :
                      /\ ops[i].op = "add_node"
                      /\ ops[i].id = NodeId(in.update_id, i)
                      /\ ops[i].label = in.keywords[i]
                      /\ ops[i].intent = in.intent_type
                /\ Cardinality(Added) = K
                /\ \A j \in 1..(Len(ops) - K) :
                      /\ ops[K + j].op = "add_edge"
                      /\ ops[K + j].from \in Added /\ ops[K + j].to \in Added
                /\ CASE in.intent_type \in {"sequential", "contrastive"} ->
                            /\ Len(ops) = 2 * K - 1
                            /\ \A j \in 1..(K - 1) :
                                  Edge(j) = <<NodeId(in.update_id, j),
                                              NodeId(in.update_id, j + 1)>>
                     [] in.intent_type \in {"structural", "relational"} ->
                            /\ Len(ops) = 2 * K - 1
                            /\ \A j \in 1..(K - 1) :
                                  Edge(j) = <<NodeId(in.update_id, 1),
                                              NodeId(in.update_id, j + 1)>>
                     [] OTHER -> Len(ops) = K

\* C28 witness: 8 keywords of a sequential update 2 gave 6 nodes and the 5 chain
\* edges, the last one from u2_n5 to u2_n6
C28_Witness ==
    \E t \in Threads :
        /\ resp[t].kind = "ops"
        /\ resp[t].called.intent_type = "sequential"
        /\ resp[t].called.update_id = 2
        /\ Len(resp[t].called.keywords) = 8
        /\ Len(resp[t].operations) = 11
        /\ resp[t].operations[11]
              = [op |-> "add_edge", from |-> NodeId(2, 5), to |-> NodeId(2, 6)]

\* C28 at the updates of the sessions: the operations of an update are those of its
\* update_id, its first 6 keywords and its intent
C28_Updates ==
    \A i \in 1..Len(heap) :
        \A u \in UpdatesOf(i) :
            /\ u.operations = build_incremental_ops(u.update_id, u.keywords, u.intent_type)
            /\ \A k \in 1..Len(u.operations) :
                  u.operations[k].op = "add_node" => u.operations[k].id[1] = u.update_id

\* thread t runs _consume_updates and pipeline_payload of a chunk or flush request
ConsumeStep(t) ==
    req[t].pc \in {"chunk_consume", "flush_consume"} /\ req'[t].pc # req[t].pc

\* the summary thread t computed in its consume step, None when the step raised
SummaryAfter(t) ==
    IF req'[t].pc = "chunk_respond" THEN Some(req'[t].summary.summary)
    ELSE IF req'[t].pc \in {"flush_close", "flush_respond"}
    THEN Some(req'[t].pipeline.summary)
    ELSE None

\* the places in the chunk log lc of the labeled chunks (those with a non-empty
\* expected_intent) whose timestamp lies in the closed window of update u
LabeledInWindow(lc, u) ==
    {k \in 1..Len(lc) : /\ lc[k][2] # None
                        /\ Truthy(lc[k][2][1])
                        /\ u.start_ms <= lc[k][1] /\ lc[k][1] <= u.end_ms}

\* label is a most frequent label among the places given
MostFrequent(lc, places, label) ==
    LET Votes(l) == Cardinality({k \in places : lc[k][2][1] = l})
    IN  /\ Votes(label) > 0
        /\ \A k \in places : Votes(lc[k][2][1]) <= Votes(label)

\* event ev agrees with the chunk log lc of its session
GoldAgrees(lc, ev) ==
    /\ IF LabeledInWindow(lc, ev.update) = {}
       THEN ev.gold_intent = None
       ELSE /\ ev.gold_intent # None
            /\ MostFrequent(lc, LabeledInWindow(lc, ev.update), ev.gold_intent[1])
    /\ ev.intent_correct =
           IF ev.gold_intent = None THEN None
           ELSE Some(ev.gold_intent[1] = [json |-> "string", value |-> ev.update.intent_type])

\* accuracy (in 1/10000) is the fraction of the events with a gold intent whose gold
\* is the prediction, to the nearest 1/10000, and None when no event has a gold intent
AccuracyAgrees(events, accuracy) ==
    LET Gold == {k \in 1..Len(events) : events[k].gold_intent # None}
        Right == {k \in Gold : events[k].gold_intent[1].value = events[k].update.intent_type}
    IN  IF Gold = {} THEN accuracy = None
        ELSE /\ accuracy # None
             /\ 2 * Abs(accuracy[1] * Cardinality(Gold) - 10000 * Cardinality(Right))
                    <= Cardinality(Gold)

\* C29: every event a session records has as gold_intent a most frequent
\* expected_intent among the chunks the session has recorded so far whose timestamp_ms
\* lies in [update.start_ms, update.end_ms], and None if no labeled chunk lies there;
\* its intent_correct is (gold_intent == intent_type) when there is a gold intent and
\* None otherwise; the intent_labeled_accuracy of the summary computed with it is the
\* fraction of the events with a gold intent whose gold is the prediction, None when
\* there are none.
C29_GoldIntent ==
    [][\A t \in Threads :
          ConsumeStep(t) =>
              LET after == heap'[req[t].obj]
                  new == Emitted(Obj(t), after)
              IN  /\ \A k \in 1..Len(new) : GoldAgrees(after.labeled_chunks, new[k])
                  /\ SummaryAfter(t) # None =>
                         AccuracyAgrees(after.events,
                                        SummaryAfter(t)[1].intent_labeled_accuracy)]_vars

\* C29 witness: a chunk request has recorded an event whose window holds two different
\* labels; the more frequent one is its gold intent, the prediction is another intent,
\* and the summary reports an accuracy of 0
C29_Witness ==
    \E t \in Threads :
        /\ req[t].pc = "chunk_respond"
        /\ req[t].emitted # <<>>
        /\ LET ev == req[t].emitted[1]
               lc == Obj(t).labeled_chunks
               in == LabeledInWindow(lc, ev.update)
           IN  /\ \E j \in in, k \in in : lc[j][2] # lc[k][2]
               /\ ev.gold_intent # None
               /\ ev.gold_intent[1].value # ev.update.intent_type
               /\ ev.intent_correct = Some(FALSE)
        /\ req[t].summary.summary.intent_labeled_accuracy = Some(0)

\* a session has an event without gold intent although it has recorded a labeled
\* chunk: the chunk lies outside the window of the event
C29_OutOfWindow ==
    \E i \in 1..Len(heap) :
        \E k \in 1..Len(heap[i].events), j \in 1..Len(heap[i].labeled_chunks) :
            /\ heap[i].events[k].gold_intent = None
            /\ heap[i].labeled_chunks[j][2] # None
            /\ heap[i].lock = 0

\* the token counts of the chunks held in pending, added up
PendingTokenSum(e) == SumSeq([k \in 1..Len(e.pending) |-> Len(tokenize(e.pending[k].text))])

\* the buffer of engine e is consistent
PendingConsistent(e) ==
    /\ e.pending_tokens = PendingTokenSum(e)
    /\ Len(e.pending) = Len(e.pending_arrive_wall_ms)

\* the engine of session object i has dispatched in this step
DispatchStep(i) == heap'[i].engine.update_id > heap[i].engine.update_id

\* C30: in every reachable state of every engine pending_tokens is the sum of the
\* token counts of the chunks held in pending (0 when pending is empty) and pending
\* and pending_arrive_wall_ms have the same length; a dispatch leaves pending and
\* pending_arrive_wall_ms empty and pending_tokens 0.
C30_PendingAccounting ==
    /\ [](\A i \in 1..Len(heap) : PendingConsistent(heap[i].engine))
    /\ [][\A i \in 1..Len(heap) :
              DispatchStep(i) =>
                  /\ heap'[i].engine.pending = <<>>
                  /\ heap'[i].engine.pending_arrive_wall_ms = <<>>
                  /\ heap'[i].engine.pending_tokens = 0]_vars

\* C30 witness: an engine that has dispatched before holds two chunks of more than
\* two tokens in all
C30_Witness ==
    \E i \in 1..Len(heap) :
        /\ heap[i].engine.update_id >= 1
        /\ Len(heap[i].engine.pending) = 2
        /\ heap[i].engine.pending_tokens > 2

\* a dispatch has just emptied a buffer that held several chunks
C30_Emptied ==
    \E t \in Threads :
        /\ req[t].pc \in {"chunk_consume", "flush_consume"}
        /\ req[t].updates # <<>>
        /\ req[t].updates[1].chunk_count >= 2
        /\ Obj(t).engine.pending = <<>>
        /\ Obj(t).engine.pending_tokens = 0

\* text is empty or has only whitespace
IsBlank(text) == \A i \in 1..Len(text) : CharAt(text, i) \in Whitespace

\* thread t gives one more chunk to the engine it drives
FeedStep(t) ==
    /\ req[t].pc = "engine_loop" /\ req'[t].pc = "engine_loop"
    /\ Len(req'[t].fed) = Len(req[t].fed) + 1

\* the chunk given in a feed step
FedChunk(t) == req'[t].fed[Len(req'[t].fed)]

\* C31: engine.ingest of a chunk whose text is empty or whitespace-only emits no update
\* and leaves the whole engine state unchanged: pending, pending_tokens,
\* last_chunk_ts, current_wait_k, last_keywords and update_id (and every other field).
C31_BlankIgnored ==
    [][\A t \in Threads :
          FeedStep(t) /\ IsBlank(FedChunk(t).text) =>
              /\ req'[t].emitted = <<>>
              /\ req'[t].updates = req[t].updates
              /\ req'[t].engine = req[t].engine]_vars

\* C31 witness: an engine that holds a chunk with timestamp 0 was given a
\* whitespace-only chunk with timestamp 4000 and still has last_chunk_ts 0
C31_Witness ==
    \E t \in Threads :
        /\ req[t].pc = "engine_loop"
        /\ Len(req[t].fed) >= 2
        /\ req[t].fed[Len(req[t].fed)] = [timestamp_ms |-> 4000, text |-> "  "]
        /\ req[t].engine.pending # <<>>
        /\ req[t].engine.last_chunk_ts = Some(0)
        /\ req[t].emitted = <<>>

\* update u was closed by a soft boundary
SoftBoundary(u) == u.boundary_reason \in SoftReasons

\* C32: every update whose boundary_reason is sentence_end, discourse_marker or
\* token_budget has chunk_count >= wait_k_used: the wait_k_used of an update is the
\* wait-k value that gated its dispatch.
C32_SoftGated ==
    \A i \in 1..Len(heap) :
        \A u \in UpdatesOf(i) : SoftBoundary(u) => u.chunk_count >= u.wait_k_used

\* C32 witness: a session has recorded an update of one chunk, closed by a sentence
\* end while current_wait_k was 1, that carries wait_k_used 2 or more: the value
\* _update_wait_k set during the dispatch
C32_Witness ==
    \E i \in 1..Len(heap) :
        \E k \in 1..Len(heap[i].events) :
            LET u == heap[i].events[k].update
            IN  /\ u.boundary_reason = "sentence_end"
                /\ u.chunk_count = 1
                /\ u.wait_k_used >= 2
                /\ heap[i].config = DefaultConfig

\* what the code keeps: an ingest dispatches on a soft boundary only when the buffer
\* holds at least as many chunks as current_wait_k was before the dispatch
C32_GatedByPrevious ==
    [][\A t \in Threads :
          IngestStep(t) /\ req'[t].updates # <<>>
                        /\ SoftBoundary(req'[t].updates[1]) =>
              req'[t].updates[1].chunk_count >= Obj(t).engine.current_wait_k]_vars

\* the same on the engine driven directly
C32_EngineGated ==
    \A t \in Threads :
        req[t].pc = "engine_loop" =>
            \A k \in 1..Len(req[t].updates) :
                SoftBoundary(req[t].updates[k]) =>
                    req[t].updates[k].chunk_count >= req[t].updates[k].wait_k_used

\* the timestamps of the chunks held in pending, in buffer order
PendingTimestamps(e) == [k \in 1..Len(e.pending) |-> e.pending[k].timestamp_ms]

\* C33: after every ingest, whatever the order of the chunk timestamps, the pending
\* buffer is empty or every pending chunk's timestamp is less than the timestamp of
\* the chunk buffered first plus max_window_ms (3800).
C33_WindowBounded ==
    \A t \in Threads :
        req[t].pc = "engine_loop" =>
            \A k \in 1..Len(req[t].engine.pending) :
                PendingTimestamps(req[t].engine)[k]
                    < PendingTimestamps(req[t].engine)[1] + max_window_ms

\* C33 witness: after an ingest the buffer holds a chunk of 4000 ms followed by a
\* chunk of 0 ms
C33_Witness ==
    \E t \in Threads :
        /\ req[t].pc = "engine_loop"
        /\ req[t].fed # <<>>
        /\ PendingTimestamps(req[t].engine) = <<4000, 0>>

\* C33 as stated, the oldest pending chunk being the one of the smallest timestamp:
\* after every ingest the timestamps held in pending span less than max_window_ms
C33_SpanBounded ==
    \A t \in Threads :
        req[t].pc = "engine_loop" /\ req[t].engine.pending # <<>> =>
            MaxOfSeq(PendingTimestamps(req[t].engine))
                < MinOfSeq(PendingTimestamps(req[t].engine)) + max_window_ms

\* with timestamps that never decrease the two readings agree: the span is bounded
C33_MonotonicSpan ==
    \A t \in Threads :
        req[t].pc = "engine_loop" /\ req[t].engine.pending # <<>>
            /\ (\A k \in 2..Len(req[t].fed) :
                    req[t].fed[k - 1].timestamp_ms <= req[t].fed[k].timestamp_ms) =>
            MaxOfSeq(PendingTimestamps(req[t].engine))
                < MinOfSeq(PendingTimestamps(req[t].engine)) + max_window_ms

\* the engines of the threads that drive one directly, each with the updates it has
\* returned so far
DrivenEngines ==
    {[engine |-> req[t].engine, updates |-> req[t].updates] :
         t \in {u \in Threads : req[u].pc = "engine_loop"}}
      \cup {[engine |-> resp[t].engine, updates |-> resp[t].updates] :
               t \in {u \in Threads : resp[u].kind = "engine"}}

\* the values _update_wait_k can set under config: base - 1, base and base + 1, each
\* clamped as max(min_wait_k, min(value, max_wait_k))
ControllerValues(config) ==
    {Clamp(config.min_wait_k, config.base_wait_k + d, config.max_wait_k) : d \in {-1, 0, 1}}

\* C34: current_wait_k is one of base_wait_k - 1, base_wait_k, base_wait_k + 1,
\* clamped or not, independent of its previous value; the first update of every
\* engine is computed with novelty 1.0 and records
\* wait_k_used = max(min_wait_k, base_wait_k - 1); with the default configuration
\* (1, 2, 4) current_wait_k never reaches max_wait_k = 4.
C34_Memoryless ==
    \A d \in DrivenEngines :
        LET e == d.engine
        IN  /\ e.current_wait_k \in
                   ControllerValues(e.config)
                       \cup {e.config.base_wait_k + c : c \in {-1, 0, 1}}
            /\ d.updates # <<>> =>
                   d.updates[1].wait_k_used
                       = Max2(e.config.min_wait_k, e.config.base_wait_k - 1)
            /\ e.config = DefaultConfig => e.current_wait_k < 4

\* C34 witness: an engine built with (min, base, max) = (1, 4, 2) has emitted its
\* first update, which records wait_k_used 2, not max(1, 4 - 1) = 3
C34_Witness ==
    \E d \in DrivenEngines :
        /\ d.engine.config = TopHeavyConfig
        /\ Len(d.updates) = 1
        /\ d.updates[1].wait_k_used = 2

\* what the code keeps under every configuration: current_wait_k is base_wait_k until
\* the first dispatch and afterwards one of base_wait_k - 1, base_wait_k,
\* base_wait_k + 1, each clamped; the first update records
\* max(min_wait_k, min(base_wait_k - 1, max_wait_k)); the default never reaches 4
C34_ClampedSteps ==
    \A d \in DrivenEngines :
        LET e == d.engine
        IN  /\ e.current_wait_k \in
                   IF e.update_id = 0 THEN {e.config.base_wait_k}
                   ELSE ControllerValues(e.config)
            /\ \A k \in 1..Len(d.updates) :
                   d.updates[k].wait_k_used \in ControllerValues(e.config)
            /\ d.updates # <<>> =>
                   d.updates[1].wait_k_used
                       = Clamp(e.config.min_wait_k, e.config.base_wait_k - 1,
                               e.config.max_wait_k)
            /\ e.config = DefaultConfig => e.current_wait_k < 4

\* a default engine whose controller went from 1 after the first update to 3 after
\* the second, both one step from the base 2
C34_OneStep ==
    \E d \in DrivenEngines :
        /\ d.engine.config = DefaultConfig
        /\ Len(d.updates) = 2
        /\ d.updates[1].wait_k_used = 1
        /\ d.updates[2].wait_k_used = 3
        /\ d.engine.current_wait_k = 3

\* for a configuration with min_wait_k <= base_wait_k <= max_wait_k the statement
\* holds as it stands
C34_OrderedConfigs ==
    \A d \in DrivenEngines :
        LET e == d.engine
        IN  e.config.min_wait_k <= e.config.base_wait_k
                /\ e.config.base_wait_k <= e.config.max_wait_k =>
                    /\ e.current_wait_k \in ControllerValues(e.config)
                    /\ d.updates # <<>> =>
                           d.updates[1].wait_k_used
                               = Max2(e.config.min_wait_k, e.config.base_wait_k - 1)

\* the threads whose last response is a flush or snapshot answer with an evaluation
Evaluated == {t \in Threads : resp[t].status = 200 /\ resp[t].kind \in {"flush", "snapshot"}}

\* C35: in every frame of every session flicker_index, mean_displacement,
\* p95_displacement and unchanged_max_drift are 0 and mental_map_score is 1; every
\* evaluation has flicker_mean_ok true, and mental_map_ok true when the session has at
\* least one frame.
C35_NothingMoves ==
    /\ \A i \in 1..Len(heap) :
           \A k \in 1..Len(heap[i].renderer.frames) :
               LET f == heap[i].renderer.frames[k]
               IN  /\ f.flicker_index = 0
                   /\ f.mean_displacement = 0
                   /\ f.p95_displacement = 0
                   /\ f.unchanged_max_drift = 0
                   /\ f.mental_map_score = 10000
    /\ \A t \in Evaluated :
           /\ resp[t].evaluation.checks.flicker_mean_ok
           /\ resp[t].pipeline.summary.renderer_stability.frame_count >= 1 =>
                  resp[t].evaluation.checks.mental_map_ok

\* C35 witness: a flush has answered for a session of two frames whose second frame
\* added nodes next to those of the first, closer than min_distance on both axes; the
\* evaluation has flicker_mean_ok and mental_map_ok
C35_Witness ==
    \E t \in Evaluated :
        /\ resp[t].kind = "flush"
        /\ resp[t].pipeline.summary.renderer_stability.frame_count = 2
        /\ resp[t].evaluation.checks.flicker_mean_ok
        /\ resp[t].evaluation.checks.mental_map_ok
        /\ \E a \in 1..Len(resp[t].pipeline.renderer_state.nodes),
              b \in 1..Len(resp[t].pipeline.renderer_state.nodes) :
              LET na == resp[t].pipeline.renderer_state.nodes[a]
                  nb == resp[t].pipeline.renderer_state.nodes[b]
              IN  /\ na.created_frame = 1 /\ nb.created_frame = 2
                  /\ Abs(na.x - nb.x) < min_distance
                  /\ Abs(na.y - nb.y) < min_distance

\* the node with id nid of renderer r
NodeOf(r, nid) == r.nodes[NodeIndex(r.nodes, nid)]

\* node_count and edge_count of the frame before frame k of renderer r, 0 before the
\* first
CountsBefore(r, k) ==
    IF k = 1 THEN [node_count |-> 0, edge_count |-> 0]
    ELSE [node_count |-> r.frames[k - 1].node_count,
          edge_count |-> r.frames[k - 1].edge_count]

\* C36: in every reachable renderer state of a session both endpoints of every edge
\* are nodes of the graph, every frame has node_count = previous node_count +
\* |added_nodes| and edge_count = previous edge_count + added_edges, and no edge
\* connects nodes created by different updates.
C36_GraphShape ==
    \A i \in 1..Len(heap) :
        LET r == heap[i].renderer
        IN  /\ \A e \in r.edges :
                   /\ e[1] \in NodeIds(r.nodes) /\ e[2] \in NodeIds(r.nodes)
                   /\ NodeOf(r, e[1]).created_frame = NodeOf(r, e[2]).created_frame
            /\ \A k \in 1..Len(r.frames) :
                   /\ r.frames[k].node_count
                          = CountsBefore(r, k).node_count + Len(r.frames[k].added_nodes)
                   /\ r.frames[k].edge_count
                          = CountsBefore(r, k).edge_count + r.frames[k].added_edges

\* C36 witness: a renderer with two frames that both added nodes and edges
C36_Witness ==
    \E i \in 1..Len(heap) :
        LET r == heap[i].renderer
        IN  /\ Len(r.frames) = 2
            /\ r.frames[1].added_edges >= 1
            /\ r.frames[2].added_edges >= 1
            /\ r.frames[2].node_count > r.frames[1].node_count
            /\ Cardinality(r.edges) = r.frames[2].edge_count

\* the session objects whose lock thread t holds
LocksHeld(t) == {i \in 1..Len(heap) : heap[i].lock = t}

\* thread t takes SESSION_LOCK in this step: a registry lookup at the start of a chunk,
\* flush or snapshot request, a create, close or list request, or the pop of a
\* closing flush
RegistryStep(t) ==
    \/ req[t].pc = "idle" /\ budget' # budget
    \/ req[t].pc = "flush_close" /\ req'[t].pc = "flush_respond"

\* the handler of thread t ends in this step
Ends(t) == req[t].pc # "idle" /\ req'[t].pc = "idle"

\* C37: no request holds the registry lock while it acquires or holds a session lock,
\* no request holds two session locks, and every chunk, flush, snapshot, close and
\* list request that starts releases its locks and responds.
C37_LocksAndResponses ==
    [][\A t \in Threads :
          /\ Cardinality(LocksHeld(t)) <= 1
          /\ RegistryStep(t) => LocksHeld(t) = {} /\ \A i \in 1..Len(heap') : heap'[i].lock # t
          /\ Ends(t) => /\ \A i \in 1..Len(heap') : heap'[i].lock # t
                        /\ resp'[t].status # 0]_vars

\* C37 witness: while the other client is at work on the session, a chunk request
\* has ended with the TypeError of a list label: the lock is free again, and the
\* request has answered nothing
C37_Witness ==
    \E t \in Threads, u \in Threads :
        /\ t # u
        /\ req[t].pc = "idle"
        /\ resp[t] = NoReply("chunk", "TypeError")
        /\ req[u].pc # "idle"
        /\ LocksHeld(t) = {}

\* what the code keeps, lock discipline: a thread holds at most one session lock, none
\* while it takes the registry lock, and none once its handler has ended
C37_LockDiscipline ==
    [][\A t \in Threads :
          /\ Cardinality(LocksHeld(t)) <= 1
          /\ RegistryStep(t) => LocksHeld(t) = {} /\ \A i \in 1..Len(heap') : heap'[i].lock # t
          /\ Ends(t) => \A i \in 1..Len(heap') : heap'[i].lock # t]_vars

\* what the code keeps, progress: under fair scheduling the handler of every request
\* that has started ends, with every lock it took released
C37_Terminates ==
    \A t \in Threads : (req[t].pc # "idle") ~> (req[t].pc = "idle" /\ LocksHeld(t) = {})

\* every session lock that is taken is released again
C37_LocksReleased ==
    \A t \in Threads : (LocksHeld(t) # {}) ~> (LocksHeld(t) = {})

\* session object i has been removed from the registry by a flush with
\* close_after_flush that has answered
ClosedByFlush(i) ==
    \E t \in Threads :
        /\ resp[t].status = 200
        /\ resp[t].kind = "flush"
        /\ resp[t].closed
        /\ resp[t].session_id = heap[i].session_id
        /\ SESSIONS[heap[i].session_id] # i

\* no request is at work on session object i: every chunk request that reached
\* ingest_chunk on it has ended
Quiet(i) == \A u \in Threads : req[u].pc # "idle" => req[u].obj # i

\* the last response of thread t acknowledges a chunk that dispatched nothing
AckedPending(t) ==
    /\ req[t].pc = "idle"
    /\ resp[t].status = 200
    /\ resp[t].kind = "chunk"
    /\ resp[t].emitted_events = <<>>

\* C38: under any interleaving of chunk requests with a closing flush, no acknowledged
\* chunk is left pending in a session that the flush has removed from the registry.
C38_NoChunkLost ==
    \A i \in 1..Len(heap) :
        (ClosedByFlush(i) /\ Quiet(i)) => heap[i].engine.pending = <<>>

\* C38 witness: a chunk request that had looked the session up before the closing
\* flush took it out of the registry has ingested afterwards and was answered 200
\* with no update; its chunk is pending in a session nobody can reach any more
C38_Witness ==
    \E i \in 1..Len(heap), t \in Threads :
        /\ ClosedByFlush(i)
        /\ Quiet(i)
        /\ AckedPending(t)
        /\ resp[t].session_id = heap[i].session_id
        /\ Len(heap[i].engine.pending) = 1
        /\ heap[i].chunk_count = Len(chunk_log[i])
        /\ heap[i].engine.pending[1].text = chunk_log[i][Len(chunk_log[i])].text

\* what the code keeps: the flush itself leaves nothing pending when it releases the
\* session lock
C38_FlushEmpties ==
    [][\A t \in Threads :
          FlushStep(t) => heap'[req[t].obj].engine.pending = <<>>]_vars

\* the checks the evaluation of an empty session is said to yield
EmptyChecks ==
    [latency_p95_ok |-> TRUE, flicker_mean_ok |-> TRUE,
     mental_map_ok |-> FALSE, intent_accuracy_ok |-> TRUE]

\* C39: the evaluation answered for a session that has emitted no update passes the
\* latency, flicker and intent accuracy checks and fails the mental map check (the
\* mean over no frames is 0.0), so realtime_eval_pass is false.
C39_EmptySessionFails ==
    \A t \in Evaluated :
        resp[t].pipeline.summary.updates_emitted = 0 =>
            /\ resp[t].pipeline.summary.renderer_stability.mental_map_score.mean = 0
            /\ resp[t].evaluation.checks = EmptyChecks
            /\ ~resp[t].evaluation.realtime_eval_pass

\* C39 witness: a chunk request died of the TypeError of a list label after the
\* renderer had drawn its update and before the event was recorded; the payload
\* answered afterwards counts no update and no event, and its evaluation passes
C39_Witness ==
    \E t \in Evaluated :
        /\ resp[t].pipeline.summary.updates_emitted = 0
        /\ resp[t].pipeline.events = <<>>
        /\ resp[t].pipeline.engine_report.updates_emitted = 1
        /\ resp[t].pipeline.summary.renderer_stability.frame_count = 1
        /\ resp[t].evaluation.checks.mental_map_ok
        /\ resp[t].evaluation.realtime_eval_pass

\* what the code keeps: the evaluation of a session whose engine has dispatched
\* nothing is the one of C39
C39_NoDispatchFails ==
    \A t \in Evaluated :
        resp[t].pipeline.engine_report.updates_emitted = 0 =>
            /\ resp[t].pipeline.summary.updates_emitted = 0
            /\ resp[t].pipeline.summary.renderer_stability.frame_count = 0
            /\ resp[t].pipeline.summary.renderer_stability.mental_map_score.mean = 0
            /\ resp[t].evaluation.checks = EmptyChecks
            /\ ~resp[t].evaluation.realtime_eval_pass

\* a snapshot right after create is answered with that evaluation
C39_FreshSnapshot ==
    \E t \in Evaluated :
        /\ resp[t].kind = "snapshot"
        /\ resp[t].pipeline.meta.input_chunk_count = 0
        /\ resp[t].evaluation.checks = EmptyChecks

\* and so is a flush right after create, which finds nothing to dispatch
C39_FlushedEmpty ==
    \E t \in Evaluated :
        /\ resp[t].kind = "flush"
        /\ resp[t].emitted_events = <<>>
        /\ resp[t].pipeline.meta.input_chunk_count = 0
        /\ resp[t].evaluation.checks = EmptyChecks
====
